---------------------------- MODULE Spec2Model ----------------------------
(***************************************************************************)
(* Graph execution engine of the orchestrator                              *)
(* (backend/src/orchestration/graph_executor.py, synthesizer.py), checked  *)
(* under Spec, and its entry point orchestrate (backend/src/engine/        *)
(* main_loop.py, with router.py, planner.py and context/session.py),       *)
(* checked under FacadeSpec.  FaultSpec is Spec with an exception leaving  *)
(* execute_subtask; ResolverSpec and ConditionSpec run                     *)
(* filter_tools_for_subtask (with tools/mcp/manager.py) and                *)
(* evaluate_condition on their own, ContextSpec runs                       *)
(* SessionMemory.get_context and ConnectSpec connect_all_servers           *)
(* (tools/mcp/connection.py).  ChatSpec is the chat loop of the web        *)
(* server (backend/src/api/web.py) calling orchestrate on one session,     *)
(* ReloadSpec one chat request with the MCP reload endpoint.               *)
(*                                                                         *)
(* Python strings are modelled as sequences of one-character strings, so   *)
(* that lower(), strip(), replace(), split() and the substring test are    *)
(* computed, not assumed.  A dict is a sequence of [id, text] records in   *)
(* insertion order.  depends_on, a list in the source, is only iterated    *)
(* and tested for membership by the engine and is a set here.  The tools   *)
(* handed to the backend (filter_tools_for_subtask) do not enter the       *)
(* scheduling state and are left out of the coroutine record; what the     *)
(* resolver returns is checked under ResolverSpec.                         *)
(***************************************************************************)
EXTENDS Naturals, Integers, Sequences, FiniteSets, TLC

(***************************************************************************)
(* Bounds of the model.                                                    *)
(***************************************************************************)
\* largest number of subtasks in a generated plan
MaxTasks == 3
\* largest number of dependency edges (depends_on entries) in a generated plan
MaxEdges == 3
\* largest number of subtasks of a generated plan that carry a condition
MaxConds == 1

(***************************************************************************)
(* Python str operations used by the engine.                               *)
(***************************************************************************)
UpperChars ==
    <<"A", "B", "C", "D", "E", "F", "G", "H", "I", "J", "K", "L", "M",
      "N", "O", "P", "Q", "R", "S", "T", "U", "V", "W", "X", "Y", "Z">>

LowerChars ==
    <<"a", "b", "c", "d", "e", "f", "g", "h", "i", "j", "k", "l", "m",
      "n", "o", "p", "q", "r", "s", "t", "u", "v", "w", "x", "y", "z">>

Whitespace == {" ", "\t", "\n", "\r"}

\* str.lower() on one character
LowerOf ==
    [c \in {UpperChars[i] : i \in 1..Len(UpperChars)} |->
        LowerChars[CHOOSE i \in 1..Len(UpperChars) : UpperChars[i] = c]]

LowerChar(c) == IF c \in DOMAIN LowerOf THEN LowerOf[c] ELSE c

\* s.lower()
lower(s) == [i \in 1..Len(s) |-> LowerChar(s[i])]

\* s[i:].startswith(p), 1-based
MatchAt(s, p, i) ==
    /\ i + Len(p) - 1 <= Len(s)
    /\ \A k \in 1..Len(p) : s[i + k - 1] = p[k]

RECURSIVE FindFrom(_, _, _)
FindFrom(s, p, i) ==
    IF i + Len(p) - 1 > Len(s) THEN 0
    ELSE IF MatchAt(s, p, i) THEN i
    ELSE FindFrom(s, p, i + 1)

\* s.find(p) + 1: position of the first occurrence, 0 when there is none
Find(s, p) == FindFrom(s, p, 1)

\* p in s
Contains(s, p) == Find(s, p) # 0

\* s.split(sep, 1)
split(s, sep) ==
    LET i == Find(s, sep)
    IN  IF i = 0 THEN <<s>>
        ELSE <<SubSeq(s, 1, i - 1), SubSeq(s, i + Len(sep), Len(s))>>

\* variant: nothing is stripped
strip_chars_nothing(s, chars) == s

\* s.strip(chars)
strip_chars(s, chars) ==
    LET keep == {i \in 1..Len(s) : s[i] \notin chars}
    IN  IF keep = {} THEN <<>>
        ELSE LET lo == CHOOSE i \in keep : \A j \in keep : i <= j
                 hi == CHOOSE i \in keep : \A j \in keep : j <= i
             IN  SubSeq(s, lo, hi)

\* s.strip()
strip(s) == strip_chars(s, Whitespace)

RECURSIVE replace(_, _, _)
\* s.replace(old, new), old non-empty
replace(s, old, new) ==
    LET i == Find(s, old)
    IN  IF i = 0 THEN s
        ELSE SubSeq(s, 1, i - 1) \o new
                \o replace(SubSeq(s, i + Len(old), Len(s)), old, new)

(***************************************************************************)
(* Dict[str, str] in insertion order.                                      *)
(***************************************************************************)
Keys(d) == {d[i].id : i \in 1..Len(d)}

\* the elements of a list
Range(f) == {f[i] : i \in DOMAIN f}

Get(d, k) == d[CHOOSE i \in 1..Len(d) : d[i].id = k].text

\* variant: d = {k: v}, the dict is replaced
Put_replaces(d, k, v) == <<[id |-> k, text |-> v]>>

\* d[k] = v: a new key is appended, an existing key keeps its position
Put(d, k, v) ==
    IF k \in Keys(d)
    THEN [i \in 1..Len(d) |-> IF d[i].id = k THEN [id |-> k, text |-> v] ELSE d[i]]
    ELSE Append(d, [id |-> k, text |-> v])

(***************************************************************************)
(* String literals of the source.                                          *)
(***************************************************************************)
S_contains == <<" ", "c", "o", "n", "t", "a", "i", "n", "s", " ">>

S_is_not_empty == <<"i", "s", " ", "n", "o", "t", " ", "e", "m", "p", "t", "y">>

S_is_empty == <<"i", "s", " ", "e", "m", "p", "t", "y">>

S_dot_result == <<".", "r", "e", "s", "u", "l", "t">>

S_unable ==
    <<"E", "r", "r", "o", "r", ":", " ", "U", "n", "a", "b", "l", "e", " ",
      "t", "o", " ", "c", "o", "m", "p", "l", "e", "t", "e", " ",
      "s", "u", "b", "t", "a", "s", "k", " ">>

S_no_subtasks ==
    <<"N", "o", " ", "s", "u", "b", "t", "a", "s", "k", "s", " ",
      "w", "e", "r", "e", " ", "e", "x", "e", "c", "u", "t", "e", "d", ".">>

(***************************************************************************)
(* evaluate_condition(condition, results)                                  *)
(***************************************************************************)
\* what a call or a block of statements does: it returns a value or an
\* exception leaves it
Returns(v) == [raised |-> FALSE, value |-> v]

Raises == [raised |-> TRUE, value |-> FALSE]

\* the try block of evaluate_condition (lines 62-89)
condition_body(condition, results) ==
    LET condition_lower == lower(condition)
    IN  IF Contains(condition_lower, S_contains)
        THEN LET parts == split(condition, S_contains)
             IN  IF Len(parts) < 2
                 THEN Raises     \* parts[1]: IndexError
                 ELSE LET subtask_ref == replace(strip(parts[1]), S_dot_result, <<>>)
                          search_term == strip_chars(strip(parts[2]), {"'", "\""})
                      IN  IF subtask_ref \in Keys(results)
                          THEN Returns(Contains(lower(Get(results, subtask_ref)),
                                                lower(search_term)))
                          ELSE Returns(FALSE)
        ELSE IF Contains(condition_lower, S_is_not_empty)
        THEN LET subtask_ref ==
                    replace(strip(replace(condition_lower, S_is_not_empty, <<>>)),
                            S_dot_result, <<>>)
             IN  IF subtask_ref \in Keys(results)
                 THEN Returns(strip(Get(results, subtask_ref)) # <<>>)
                 ELSE Returns(FALSE)
        ELSE IF Contains(condition_lower, S_is_empty)
        THEN LET subtask_ref ==
                    replace(strip(replace(condition_lower, S_is_empty, <<>>)),
                            S_dot_result, <<>>)
             IN  IF subtask_ref \in Keys(results)
                 THEN Returns(strip(Get(results, subtask_ref)) = <<>>)
                 ELSE Returns(TRUE)
        ELSE Returns(TRUE)

\* variant: the try block has no except clause
evaluate_outcome_uncaught(condition, results) ==
    IF condition = <<>> THEN Returns(TRUE)
    ELSE condition_body(condition, results)

\* what a call of evaluate_condition does: "if not condition: return True",
\* then the try block; "except Exception: return True"
evaluate_outcome(condition, results) ==
    IF condition = <<>> THEN Returns(TRUE)
    ELSE LET body == condition_body(condition, results)
         IN  IF body.raised THEN Returns(TRUE) ELSE body

\* the bool evaluate_condition returns
evaluate_condition(condition, results) == evaluate_outcome(condition, results).value


(***************************************************************************)
(* MODEL_CHAINS (core/models.py): model ids in fallback order.             *)
(***************************************************************************)
MODEL_CHAINS ==
    [router      |-> <<"gemini-2.5-flash", "moonshotai/kimi-k2-0905">>,
     planner     |-> <<"gemini-2.5-flash", "openai/gpt-4o">>,
     agent       |-> <<"gemini-2.5-flash", "openai/gpt-4o">>,
     synthesizer |-> <<"gemini-2.5-flash", "moonshotai/kimi-k2-0905">>]

\* What one backend call (Agent.arun / Agent.run) can do: return a text, raise
\* ModelProviderError, or raise another Exception.
BackendTexts == {<<"r">>, <<>>}

Outcomes ==
    [kind : {"ok"}, text : BackendTexts]
        \cup {[kind |-> "ModelProviderError", text |-> <<>>],
              [kind |-> "Exception", text |-> <<>>]}

(***************************************************************************)
(* Subtask and ExecutionPlan (core/schemas.py).  An absent condition       *)
(* (None) and the empty string are both falsy and are both <<>> here.      *)
(***************************************************************************)
Names == <<"a", "b", "c", "d", "e", "f", "h">>

IdAt(i) == <<Names[i]>>

\* an id that no subtask of any plan carries
Ghost == <<"g">>

Subtask(id, depends_on, condition) ==
    [id |-> id, depends_on |-> depends_on, condition |-> condition]

S_contains_r == <<" ", "c", "o", "n", "t", "a", "i", "n", "s", " ", "'", "r", "'">>

S_sp_is_empty == <<" ", "i", "s", " ", "e", "m", "p", "t", "y">>

\* conditions a planner may attach in a plan of n subtasks
Conditions(n) ==
    {IdAt(i) \o S_contains_r : i \in 1..n} \cup {IdAt(i) \o S_sp_is_empty : i \in 1..n}

\* which subtasks carry which condition: at most MaxConds of them carry one
CondAssignments ==
    [n \in 0..MaxTasks |->
        {c \in [1..n -> Conditions(n) \cup {<<>>}] :
            Cardinality({i \in 1..n : c[i] # <<>>}) <= MaxConds}]

\* dependency relations of n subtasks: <<i, t>> puts id t in the depends_on of
\* the i-th subtask; t is any id of the plan (the subtask's own too) or Ghost
EdgeSets ==
    [n \in 0..MaxTasks |->
        {E \in SUBSET ((1..n) \X ({IdAt(i) : i \in 1..n} \cup {Ghost})) :
            Cardinality(E) <= MaxEdges}]

\* a plan of n subtasks with unique ids, the i-th listed subtask carrying IdAt(i)
MakePlan(n, E, c) ==
    [i \in 1..n |-> Subtask(IdAt(i), {e[2] : e \in {x \in E : x[1] = i}}, c[i])]

\* the diamond A->B, A->C, B,C->D
DiamondTasks ==
    <<Subtask(<<"a">>, {}, <<>>),
      Subtask(<<"b">>, {<<"a">>}, <<>>),
      Subtask(<<"c">>, {<<"a">>}, <<>>),
      Subtask(<<"d">>, {<<"b">>, <<"c">>}, <<>>)>>

\* the diamond listed in every order
DiamondPlans ==
    {[i \in 1..4 |-> DiamondTasks[f[i]]] :
        f \in {g \in [1..4 -> 1..4] : \A i, j \in 1..4 : g[i] = g[j] => i = j}}

\* a branch: b runs only if the text of a holds "r", c follows b, d follows a
BranchPlan ==
    <<Subtask(<<"a">>, {}, <<>>),
      Subtask(<<"b">>, {<<"a">>}, <<"a">> \o S_contains_r),
      Subtask(<<"c">>, {<<"b">>}, <<>>),
      Subtask(<<"d">>, {<<"a">>}, <<>>)>>

PlanIds(p) == {p[i].id : i \in 1..Len(p)}

(***************************************************************************)
(* get_ready_subtasks(subtasks, completed, results): one pass over the     *)
(* list in plan order; a candidate whose condition is false is added to    *)
(* completed during the pass.                                              *)
(***************************************************************************)
\* variant: the membership test is missing
already_done_never(subtask, completed) == FALSE

\* if subtask.id in completed: continue
already_done(subtask, completed) == subtask.id \in completed

\* variant: any() instead of all()
deps_met_any(subtask, completed) ==
    subtask.depends_on = {} \/ \E dep \in subtask.depends_on : dep \in completed

\* all(dep in completed for dep in subtask.depends_on)
deps_met(subtask, completed) == \A dep \in subtask.depends_on : dep \in completed

\* if subtask.condition: if not evaluate_condition(subtask.condition, results)
condition_fails(subtask, results) ==
    /\ subtask.condition # <<>>
    /\ ~evaluate_condition(subtask.condition, results)

\* variant: the skipped subtask is not added to completed
mark_skipped_forgets(completed, subtask) == completed

\* completed.add(subtask.id) of a subtask whose condition is false
mark_skipped(completed, subtask) == completed \cup {subtask.id}

\* the calls of evaluate_condition made so far in a pass, after the one for
\* subtask if it has a condition: each with the id, completed and the keys of
\* results as they are at the call
evaluation(subtask, results, acc) ==
    IF subtask.condition = <<>> THEN acc.evaluated
    ELSE Append(acc.evaluated, [id |-> subtask.id, completed |-> acc.completed,
                                keys |-> Keys(results)])

\* acc.ready is the list built so far, acc.completed the set as mutated so far;
\* acc.skipped lists the ids whose condition was found false in this pass,
\* acc.evaluated the calls of evaluate_condition of this pass
RECURSIVE ready_pass(_, _, _, _)
ready_pass(subtasks, i, results, acc) ==
    IF i > Len(subtasks) THEN acc
    ELSE LET subtask == subtasks[i]
         IN  IF already_done(subtask, acc.completed)
             THEN ready_pass(subtasks, i + 1, results, acc)
             ELSE IF ~deps_met(subtask, acc.completed)
             THEN ready_pass(subtasks, i + 1, results, acc)
             ELSE IF condition_fails(subtask, results)
             THEN ready_pass(subtasks, i + 1, results,
                     [acc EXCEPT !.completed = mark_skipped(acc.completed, subtask),
                                 !.skipped = acc.skipped \cup {subtask.id},
                                 !.evaluated = evaluation(subtask, results, acc)])
             ELSE ready_pass(subtasks, i + 1, results,
                     [acc EXCEPT !.ready = Append(acc.ready, subtask),
                                 !.evaluated = evaluation(subtask, results, acc)])

get_ready_subtasks(subtasks, completed, results) ==
    ready_pass(subtasks, 1, results,
               [ready |-> <<>>, completed |-> completed, skipped |-> {},
                evaluated |-> <<>>])

(***************************************************************************)
(* execute_subtask: one coroutine per dispatched subtask.                  *)
(***************************************************************************)
\* the dependency results appended to the instructions
dep_results(subtask, results) ==
    {[id |-> dep, text |-> Get(results, dep)] :
        dep \in {d \in subtask.depends_on : d \in Keys(results)}}

\* variant: the failure text is the empty string
failure_text_empty(id) == <<>>

\* f"Error: Unable to complete subtask {subtask.id}"
failure_text(id) == S_unable \o id

S_error == <<"E", "r", "r", "o", "r", ":", " ">>

S_result_from ==
    <<"[", "R", "e", "s", "u", "l", "t", " ", "f", "r", "o", "m", " ">>

S_previous ==
    <<"\n", "\n", "P", "r", "e", "v", "i", "o", "u", "s", " ",
      "r", "e", "s", "u", "l", "t", "s", " ", "y", "o", "u", " ",
      "c", "a", "n", " ", "u", "s", "e", ":", "\n">>

\* f"[Result from {dep}]: {results[dep]}"
excerpt(e) == S_result_from \o e.id \o <<"]", ":", " ">> \o e.text

\* the coroutine object made by the call execute_subtask(...): nothing of its
\* body has run yet
\*   injected the dependency results put into the instructions
\*   tried    the backend calls made so far, each with its model and what it did
\*   status   "created", "running" (instructions built, in the chain loop),
\*            "returned" (ret is the returned text) or "raised" (ret is str()
\*            of the exception that escaped)
start_subtask(subtask) ==
    [id       |-> subtask.id,
     injected |-> {},
     idx      |-> 1,
     tried    |-> <<>>,
     status   |-> "created",
     ret      |-> <<>>]

\* variant: every entry of results is put into the instructions
build_instructions_all(t, subtask, results) ==
    [t EXCEPT !.injected = {results[i] : i \in 1..Len(results)},
              !.status = "running"]

\* the body of the coroutine up to the chain loop: the instructions are built
\* from results as it is when the body runs
build_instructions(t, subtask, results) ==
    [t EXCEPT !.injected = dep_results(subtask, results), !.status = "running"]

\* variant: only ModelProviderError is caught, another exception escapes
call_model_uncaught(t, outcome) ==
    LET chain == MODEL_CHAINS.agent
        tried == Append(t.tried, [model |-> chain[t.idx], kind |-> outcome.kind,
                                  text |-> outcome.text])
    IN  IF outcome.kind = "ok"
        THEN [t EXCEPT !.tried = tried, !.status = "returned", !.ret = outcome.text]
        ELSE IF outcome.kind = "Exception"
        THEN [t EXCEPT !.tried = tried, !.status = "raised", !.ret = outcome.text]
        ELSE IF t.idx < Len(chain)
        THEN [t EXCEPT !.tried = tried, !.idx = t.idx + 1]
        ELSE [t EXCEPT !.tried = tried, !.idx = t.idx + 1,
                       !.status = "returned", !.ret = S_unable \o t.id]

\* one pass through the body of the for loop over MODEL_CHAINS["agent"]:
\* return result.content, or catch the exception and continue; after the last
\* model the loop ends and the failure text is returned
call_model(t, outcome) ==
    LET chain == MODEL_CHAINS.agent
        tried == Append(t.tried, [model |-> chain[t.idx], kind |-> outcome.kind,
                                  text |-> outcome.text])
    IN  IF outcome.kind = "ok"
        THEN [t EXCEPT !.tried = tried, !.status = "returned", !.ret = outcome.text]
        ELSE IF t.idx < Len(chain)
        THEN [t EXCEPT !.tried = tried, !.idx = t.idx + 1]
        ELSE [t EXCEPT !.tried = tried, !.idx = t.idx + 1,
                       !.status = "returned", !.ret = failure_text(t.id)]

\* the coroutine is done: it returned or raised
finished(t) == t.status \in {"returned", "raised"}

\* variant: str(result) is stored without the "Error: " in front
gathered_text_unmarked(t) == t.ret

\* what execute stores for a finished member of asyncio.gather(...,
\* return_exceptions=True)
gathered_text(t) == IF t.status = "raised" THEN S_error \o t.ret ELSE t.ret

(***************************************************************************)
(* synthesize(request, results)                                            *)
(***************************************************************************)
\* position of an id in the order in which depends_on lists ids (depends_on is
\* a set here; its ids are taken in the order of Names)
NameIndex(id) == CHOOSE i \in 1..Len(Names) : IdAt(i) = id

RECURSIVE in_order(_)
in_order(S) ==
    IF S = {} THEN <<>>
    ELSE LET m == CHOOSE x \in S : \A y \in S : NameIndex(x.id) <= NameIndex(y.id)
         IN  <<m>> \o in_order(S \ {m})

RECURSIVE join(_, _)
\* sep.join(parts)
join(sep, parts) ==
    IF parts = <<>> THEN <<>>
    ELSE IF Len(parts) = 1 THEN parts[1]
    ELSE parts[1] \o sep \o join(sep, Tail(parts))

\* variant: the entries are taken in the order of their ids
concatenation_sorted(results) ==
    LET sorted == in_order(Range(results))
    IN  join(<<"\n", "\n">>,
             [i \in 1..Len(sorted) |-> sorted[i].id \o <<":", " ">> \o sorted[i].text])

\* "\n\n".join(f"{k}: {v}" for k, v in results.items())
concatenation(results) ==
    join(<<"\n", "\n">>,
         [i \in 1..Len(results) |-> results[i].id \o <<":", " ">> \o results[i].text])

RECURSIVE synthesize_from(_, _, _)
synthesize_from(i, results, outcomes) ==
    IF i > Len(MODEL_CHAINS.synthesizer) THEN concatenation(results)
    ELSE IF outcomes[i].kind = "ok" THEN outcomes[i].text
    ELSE synthesize_from(i + 1, results, outcomes)

\* outcomes[i]: what the call to the i-th synthesizer model does, if made
synthesize(results, outcomes) == synthesize_from(1, results, outcomes)

\* what execute_subtask appends to subtask.instructions: nothing when no
\* dependency has a result, otherwise the heading and one line per dependency
\* that has one
enhanced_instructions(t) ==
    IF t.injected = {} THEN <<>>
    ELSE LET deps == in_order(t.injected)
         IN  S_previous \o join(<<"\n">>, [i \in 1..Len(deps) |-> excerpt(deps[i])])

\* the model calls synthesize makes: the chain up to the first call that returns
synthesize_calls(outcomes) ==
    LET chain == MODEL_CHAINS.synthesizer
        oks == {i \in 1..Len(chain) : outcomes[i].kind = "ok"}
        last == IF oks = {} THEN Len(chain)
                ELSE CHOOSE i \in oks : \A j \in oks : i <= j
    IN  [i \in 1..last |-> [model |-> chain[i], kind |-> outcomes[i].kind,
                            text |-> outcomes[i].text]]

(***************************************************************************)
(* State of one execute(plan, request, mcp_tools, mcp_manager) run.        *)
(*   plan       plan.subtasks                                              *)
(*   results    the results dict                                           *)
(*   completed  the completed set                                          *)
(*   ready      the list returned by the last get_ready_subtasks           *)
(*   tasks      the execute_subtask coroutines in flight, ready[i] is      *)
(*              run by tasks[i]                                            *)
(*   pc         "loop"   at the while test                                 *)
(*              "single" awaiting the one execute_subtask                  *)
(*              "gather" awaiting asyncio.gather                           *)
(*              "select" after the loop, at the output selection           *)
(*              "done"   returned                                          *)
(*              "raised" left by an exception                              *)
(*   output     the returned text                                          *)
(* History of the run, read by the properties only:                        *)
(*   started    ids for which execute_subtask was called, in call order    *)
(*   skipped    ids added to completed by a false condition                *)
(*   evaluated  the calls of evaluate_condition, in call order, each with  *)
(*              completed and the keys of results at the call              *)
(*   early_exit the break of the empty frontier was taken                  *)
(*   synth_args the results dict of every synthesize call                  *)
(*   iters      iterations of the loop that dispatched a frontier          *)
(*   returns    [id, text] of every execute_subtask return, in return order*)
(*   exhausted  ids whose execute_subtask ran out of models                *)
(*   synth_out  of every synthesize call, the model calls it made and the  *)
(*              text it returned                                           *)
(***************************************************************************)
VARIABLES plan, results, completed, ready, tasks, pc, output,
          started, skipped, evaluated, early_exit, synth_args, iters, returns,
          exhausted, synth_out

history == <<started, skipped, evaluated, early_exit, synth_args, iters, returns,
             exhausted, synth_out>>

\* the state of one execute run
svars == <<plan, results, completed, ready, tasks, pc, output, history>>


(***************************************************************************)
(* State of one orchestrate(request, mcp_manager, mcp_command, session,    *)
(* on_event) call (engine/main_loop.py).                                   *)
(*   args            the arguments: request; has_session (session is not   *)
(*                   None); on_event "None", "delivers" or "raises";       *)
(*                   mcp_command "None" or "cmd"; mcp_manager "None",      *)
(*                   "no servers" or "servers"                             *)
(*   session         session._turns, a list of [role, content]             *)
(*   fpc             "idle"     no orchestrate call is under way           *)
(*                   "start"    called                                     *)
(*                   "route"    before route(...)                          *)
(*                   "direct"   in the direct branch                       *)
(*                   "discover" in the agent branch, before the tools      *)
(*                   "planning" before plan(...)                           *)
(*                   "report"   before the plan is printed and emitted     *)
(*                   "execute"  before the try block around execute        *)
(*                   "returned" returned response                          *)
(*                   "raised"   left by the exception named by raised      *)
(*   decision        the RouteDecision returned by route                   *)
(*   available_tools the tool names handed to plan                         *)
(*   manual_mcp      "None" or "open": the connection of mcp_command       *)
(*   execution_plan  the ExecutionPlan returned by plan                    *)
(*   response        the returned text                                     *)
(*   raised          the exception that left orchestrate, "" if none       *)
(* History of the call, read by the properties only:                       *)
(*   calls           the calls to route, plan, the backend (agent.run) and *)
(*                   execute, in order, each with what it did              *)
(*   events          the events handed to on_event                         *)
(***************************************************************************)
VARIABLES args, session, fpc, decision, available_tools, manual_mcp,
          execution_plan, response, raised, calls, events

fvars == <<args, session, fpc, decision, available_tools, manual_mcp,
           execution_plan, response, raised, calls, events>>

(***************************************************************************)
(* State of one call of a function of the engine that is run on its own.   *)
(*   filter_call    filter_tools_for_subtask(subtask, all_tools,           *)
(*                  mcp_manager): tools is subtask.tools; returned tells   *)
(*                  that the call has returned filtered_tools              *)
(*   evaluate_call  evaluate_condition(condition, results): about tells    *)
(*                  what the condition text was written from; returned     *)
(*                  tells that the call has ended, raised that an          *)
(*                  exception left it, value is the returned bool          *)
(*   context_call   SessionMemory.get_context(token_limit) on a session    *)
(*                  holding turns; returned tells that the call has        *)
(*                  returned context                                       *)
(*   web            the module state of api/web.py: mcp_manager names the  *)
(*                  global MCPManager object (0 for None), handed the      *)
(*                  manager object given to the orchestrate call of the    *)
(*                  WebSocket handler, closed the manager objects on which *)
(*                  close_all has run                                      *)
(*   connect_call   connect_all_servers(configs, skip_failed): i is the    *)
(*                  position of the for loop in enabled_configs, servers   *)
(*                  the names in manager.servers in insertion order,       *)
(*                  attempted the names given to connect_mcp_server so     *)
(*                  far, closed the names whose handle was closed, status  *)
(*                  "running", "returned" or "raised" ("" when not run)    *)
(***************************************************************************)
VARIABLES filter_call, evaluate_call, context_call, web, connect_call

pvars == <<filter_call, evaluate_call, context_call, web, connect_call>>

vars == <<svars, fvars, pvars>>

\* mcp_manager is None
NoManager == [present |-> FALSE, servers |-> <<>>]

NoFilterCall ==
    [tools |-> <<>>, all_tools |-> <<>>, mcp_manager |-> NoManager,
     returned |-> FALSE, filtered_tools |-> <<>>]

NoShape == [shape |-> "", id |-> <<>>, term |-> <<>>]

NoEvaluateCall ==
    [condition |-> <<>>, results |-> <<>>, about |-> NoShape,
     returned |-> FALSE, raised |-> FALSE, value |-> FALSE]

NoContextCall ==
    [turns |-> <<>>, token_limit |-> 0, returned |-> FALSE, context |-> <<>>]

\* no web server: no global manager, no manager handed to a request
NoWeb == [mcp_manager |-> 0, handed |-> 0, closed |-> {}]

NoConnectCall ==
    [configs |-> <<>>, skip_failed |-> TRUE, status |-> "", i |-> 0,
     servers |-> <<>>, attempted |-> <<>>, closed |-> <<>>]

\* no function is run on its own
PureIdle ==
    /\ filter_call = NoFilterCall
    /\ evaluate_call = NoEvaluateCall
    /\ context_call = NoContextCall
    /\ web = NoWeb
    /\ connect_call = NoConnectCall

NoRequest ==
    [request |-> <<>>, has_session |-> FALSE, on_event |-> "None",
     mcp_command |-> "None", mcp_manager |-> "None"]

NoDecision == [path |-> "", reasoning |-> ""]

\* execute is run on its own, outside any orchestrate call
FacadeIdle ==
    /\ args = NoRequest
    /\ session = <<>>
    /\ fpc = "idle"
    /\ decision = NoDecision
    /\ available_tools = {}
    /\ manual_mcp = "None"
    /\ execution_plan = [subtasks |-> <<>>]
    /\ response = <<>>
    /\ raised = ""
    /\ calls = <<>>
    /\ events = <<>>

Init ==
    /\ \/ \E n \in 0..MaxTasks : \E E \in EdgeSets[n], c \in CondAssignments[n] :
            plan = MakePlan(n, E, c)
       \/ plan \in DiamondPlans
       \/ plan = BranchPlan
    /\ results = <<>>
    /\ completed = {}
    /\ ready = <<>>
    /\ tasks = <<>>
    /\ pc = "loop"
    /\ output = <<>>
    /\ started = <<>>
    /\ skipped = {}
    /\ evaluated = <<>>
    /\ early_exit = FALSE
    /\ synth_args = <<>>
    /\ iters = 0
    /\ returns = <<>>
    /\ exhausted = {}
    /\ synth_out = <<>>
    /\ FacadeIdle
    /\ PureIdle

\* while len(completed) < len(plan.subtasks)
loop_test == Cardinality(completed) < Len(plan)

Frontier == get_ready_subtasks(plan, completed, results)

\* the while test fails: leave the loop
LoopExit ==
    /\ pc = "loop"
    /\ ~loop_test
    /\ pc' = "select"
    /\ UNCHANGED <<pvars, fvars, plan, results, completed, ready, tasks, output, history>>

\* variant: get_ready_subtasks works on a copy of completed, its skips are lost
NoReady_on_copy ==
    /\ pc = "loop"
    /\ loop_test
    /\ Frontier.ready = <<>>
    /\ skipped' = skipped \cup Frontier.skipped
    /\ evaluated' = evaluated \o Frontier.evaluated
    /\ early_exit' = TRUE
    /\ pc' = "select"
    /\ UNCHANGED <<pvars, fvars, plan, results, completed, ready, tasks, output,
                   started, synth_args, synth_out, iters, returns, exhausted>>

\* the frontier is empty: break
NoReady ==
    /\ pc = "loop"
    /\ loop_test
    /\ Frontier.ready = <<>>
    /\ completed' = Frontier.completed
    /\ skipped' = skipped \cup Frontier.skipped
    /\ evaluated' = evaluated \o Frontier.evaluated
    /\ early_exit' = TRUE
    /\ pc' = "select"
    /\ UNCHANGED <<pvars, fvars, plan, results, ready, tasks, output, started, synth_args,
                   synth_out, iters,
                   returns, exhausted>>

\* the frontier has one member: await execute_subtask(...)
DispatchSingle ==
    /\ pc = "loop"
    /\ loop_test
    /\ Len(Frontier.ready) = 1
    /\ completed' = Frontier.completed
    /\ skipped' = skipped \cup Frontier.skipped
    /\ evaluated' = evaluated \o Frontier.evaluated
    /\ ready' = Frontier.ready
    /\ tasks' = <<start_subtask(Frontier.ready[1])>>
    /\ started' = Append(started, Frontier.ready[1].id)
    /\ iters' = iters + 1
    /\ pc' = "single"
    /\ UNCHANGED <<pvars, fvars, plan, results, output, early_exit, synth_args,
                   synth_out, returns, exhausted>>

\* the frontier has several members: await asyncio.gather(*tasks)
DispatchParallel ==
    /\ pc = "loop"
    /\ loop_test
    /\ Len(Frontier.ready) > 1
    /\ completed' = Frontier.completed
    /\ skipped' = skipped \cup Frontier.skipped
    /\ evaluated' = evaluated \o Frontier.evaluated
    /\ ready' = Frontier.ready
    /\ tasks' = [i \in 1..Len(Frontier.ready) |->
                    start_subtask(Frontier.ready[i])]
    /\ started' = started \o [i \in 1..Len(Frontier.ready) |-> Frontier.ready[i].id]
    /\ iters' = iters + 1
    /\ pc' = "gather"
    /\ UNCHANGED <<pvars, fvars, plan, results, output, early_exit, synth_args,
                   synth_out, returns, exhausted>>

\* coroutine i runs from its start to the chain loop.  The event loop starts
\* the coroutines of one gather in list order; one started earlier may be
\* anywhere, finished included, when the next one starts
BuildInstructions ==
    /\ pc \in {"single", "gather"}
    /\ \E i \in 1..Len(tasks) :
        /\ tasks[i].status = "created"
        /\ \A j \in 1..(i - 1) : tasks[j].status # "created"
        /\ tasks' = [tasks EXCEPT ![i] = build_instructions(tasks[i], ready[i], results)]
    /\ UNCHANGED <<pvars, fvars, plan, results, completed, ready, pc, output, history>>

\* variant: a coroutine that returns stores its text in results itself
BackendCall_records(i, outcome) ==
    /\ pc \in {"single", "gather"}
    /\ i \in 1..Len(tasks)
    /\ tasks[i].status = "running"
    /\ LET t == call_model(tasks[i], outcome)
       IN  /\ tasks' = [tasks EXCEPT ![i] = t]
           /\ returns' = IF t.status = "returned"
                         THEN Append(returns, [id |-> t.id, text |-> t.ret])
                         ELSE returns
           /\ exhausted' = IF t.status = "returned" /\ outcome.kind # "ok"
                           THEN exhausted \cup {t.id}
                           ELSE exhausted
           /\ results' = IF t.status = "returned" THEN Put(results, t.id, t.ret)
                         ELSE results
    /\ UNCHANGED <<pvars, fvars, plan, completed, ready, pc, output,
                   started, skipped, evaluated, early_exit, synth_args, synth_out, iters>>

\* a backend call of coroutine i completes with the given outcome
BackendCall(i, outcome) ==
    /\ pc \in {"single", "gather"}
    /\ i \in 1..Len(tasks)
    /\ tasks[i].status = "running"
    /\ LET t == call_model(tasks[i], outcome)
       IN  /\ tasks' = [tasks EXCEPT ![i] = t]
           /\ returns' = IF t.status = "returned"
                         THEN Append(returns, [id |-> t.id, text |-> t.ret])
                         ELSE returns
           /\ exhausted' = IF t.status = "returned" /\ outcome.kind # "ok"
                           THEN exhausted \cup {t.id}
                           ELSE exhausted
    /\ UNCHANGED <<pvars, fvars, plan, results, completed, ready, pc, output,
                   started, skipped, evaluated, early_exit, synth_args, synth_out, iters>>

\* agent.arun returns result.content
ModelReturns == \E i \in 1..Len(tasks), text \in BackendTexts :
    BackendCall(i, [kind |-> "ok", text |-> text])

\* except ModelProviderError: continue
ModelProviderError == \E i \in 1..Len(tasks) :
    BackendCall(i, [kind |-> "ModelProviderError", text |-> <<>>])

\* except Exception: continue
ModelException == \E i \in 1..Len(tasks) :
    BackendCall(i, [kind |-> "Exception", text |-> <<>>])

\* variant: completed.add(subtask.id) is missing
JoinSingle_forgets ==
    /\ pc = "single"
    /\ finished(tasks[1])
    /\ results' = Put(results, ready[1].id, tasks[1].ret)
    /\ pc' = "loop"
    /\ ready' = <<>>
    /\ tasks' = <<>>
    /\ UNCHANGED <<pvars, fvars, plan, completed, output, history>>

\* result = await execute_subtask(...): an exception that escaped the coroutine
\* propagates out of execute; otherwise
\* results[subtask.id] = result; completed.add(subtask.id)
JoinSingle ==
    /\ pc = "single"
    /\ finished(tasks[1])
    /\ IF tasks[1].status = "raised"
       THEN /\ pc' = "raised"
            /\ UNCHANGED <<results, completed>>
       ELSE /\ results' = Put(results, ready[1].id, tasks[1].ret)
            /\ completed' = completed \cup {ready[1].id}
            /\ pc' = "loop"
    /\ ready' = <<>>
    /\ tasks' = <<>>
    /\ UNCHANGED <<pvars, fvars, plan, output, history>>

RECURSIVE record_all(_, _, _, _)
\* variant: the gathered results are taken in completion order, not in the
\* order of ready
record_all_as_completed(res, rdy, tsk, i) ==
    IF i > Len(rdy) THEN res
    ELSE record_all(Put(res, rdy[i].id, returns[Len(returns) - Len(rdy) + i].text),
                    rdy, tsk, i + 1)

RECURSIVE record_all_by_completion(_, _, _, _)
\* variant: the entries are written as the coroutines complete, each under its
\* own id
record_all_by_completion(res, rdy, tsk, i) ==
    IF i > Len(rdy) THEN res
    ELSE LET r == returns[Len(returns) - Len(rdy) + i]
         IN  record_all_by_completion(Put(res, r.id, r.text), rdy, tsk, i + 1)

\* for subtask, result in zip(ready, task_results): results[subtask.id] = ...
record_all(res, rdy, tsk, i) ==
    IF i > Len(rdy) THEN res
    ELSE record_all(Put(res, rdy[i].id, gathered_text(tsk[i])), rdy, tsk, i + 1)

\* variant: the wait ends when the first coroutine has finished
JoinGather_first_completed ==
    /\ pc = "gather"
    /\ \E i \in 1..Len(tasks) : finished(tasks[i])
    /\ results' = record_all(results, ready, tasks, 1)
    /\ completed' = completed \cup {ready[i].id : i \in 1..Len(ready)}
    /\ ready' = <<>>
    /\ tasks' = <<>>
    /\ pc' = "loop"
    /\ UNCHANGED <<pvars, fvars, plan, output, history>>

\* gather returns once every coroutine has finished
JoinGather ==
    /\ pc = "gather"
    /\ \A i \in 1..Len(tasks) : finished(tasks[i])
    /\ results' = record_all(results, ready, tasks, 1)
    /\ completed' = completed \cup {ready[i].id : i \in 1..Len(ready)}
    /\ ready' = <<>>
    /\ tasks' = <<>>
    /\ pc' = "loop"
    /\ UNCHANGED <<pvars, fvars, plan, output, history>>

\* len(results) == 0
ReturnNothing ==
    /\ pc = "select"
    /\ Len(results) = 0
    /\ output' = S_no_subtasks
    /\ pc' = "done"
    /\ UNCHANGED <<pvars, fvars, plan, results, completed, ready, tasks, history>>

\* variant: the single result is handed to synthesize too
ReturnSingle_synthesizes ==
    /\ pc = "select"
    /\ Len(results) = 1
    /\ \E outcomes \in [1..Len(MODEL_CHAINS.synthesizer) -> Outcomes] :
            /\ output' = synthesize(results, outcomes)
            /\ synth_out' = Append(synth_out,
                                [tried |-> synthesize_calls(outcomes),
                                 ret   |-> synthesize(results, outcomes)])
    /\ synth_args' = Append(synth_args, results)
    /\ pc' = "done"
    /\ UNCHANGED <<pvars, fvars, plan, results, completed, ready, tasks,
                   started, skipped, evaluated, early_exit, iters, returns, exhausted>>

\* len(results) == 1: list(results.values())[0]
ReturnSingle ==
    /\ pc = "select"
    /\ Len(results) = 1
    /\ output' = results[1].text
    /\ pc' = "done"
    /\ UNCHANGED <<pvars, fvars, plan, results, completed, ready, tasks, history>>

\* variant: the first result is returned, synthesize is not called
ReturnSynthesized_first ==
    /\ pc = "select"
    /\ Len(results) > 1
    /\ output' = results[1].text
    /\ pc' = "done"
    /\ UNCHANGED <<pvars, fvars, plan, results, completed, ready, tasks, history>>

\* otherwise: synthesize(request, results)
ReturnSynthesized ==
    /\ pc = "select"
    /\ Len(results) > 1
    /\ \E outcomes \in [1..Len(MODEL_CHAINS.synthesizer) -> Outcomes] :
            /\ output' = synthesize(results, outcomes)
            /\ synth_out' = Append(synth_out,
                                [tried |-> synthesize_calls(outcomes),
                                 ret   |-> synthesize(results, outcomes)])
    /\ synth_args' = Append(synth_args, results)
    /\ pc' = "done"
    /\ UNCHANGED <<pvars, fvars, plan, results, completed, ready, tasks,
                   started, skipped, evaluated, early_exit, iters, returns, exhausted>>

Next ==
    \/ LoopExit
    \/ NoReady
    \/ DispatchSingle
    \/ DispatchParallel
    \/ BuildInstructions
    \/ ModelReturns
    \/ ModelProviderError
    \/ ModelException
    \/ JoinSingle
    \/ JoinGather
    \/ ReturnNothing
    \/ ReturnSingle
    \/ ReturnSynthesized

Spec == Init /\ [][Next]_vars

(***************************************************************************)
(* execute with a fault in filter_tools_for_subtask, checked under         *)
(* FaultSpec.  execute_subtask calls filter_tools_for_subtask (line 106)   *)
(* before its try block; with a provider whose functions is None the test  *)
(* "tool_name in mcp.functions" raises TypeError, which leaves             *)
(* execute_subtask.  Spec is the run in which every provider's functions   *)
(* is a dict.                                                              *)
(***************************************************************************)
S_not_iterable ==
    <<"a", "r", "g", "u", "m", "e", "n", "t", " ", "o", "f", " ", "t", "y",
      "p", "e", " ", "'", "N", "o", "n", "e", "T", "y", "p", "e", "'", " ",
      "i", "s", " ", "n", "o", "t", " ", "i", "t", "e", "r", "a", "b", "l", "e">>

\* the body of the coroutine ends at line 106 by the exception
filter_tools_raises(t) == [t EXCEPT !.status = "raised", !.ret = S_not_iterable]

\* coroutine i runs from its start into filter_tools_for_subtask, which raises
ResolverRaises ==
    /\ pc \in {"single", "gather"}
    /\ \E i \in 1..Len(tasks) :
        /\ tasks[i].status = "created"
        /\ \A j \in 1..(i - 1) : tasks[j].status # "created"
        /\ tasks' = [tasks EXCEPT ![i] = filter_tools_raises(tasks[i])]
    /\ UNCHANGED <<pvars, fvars, plan, results, completed, ready, pc, output, history>>

FaultNext ==
    \/ LoopExit
    \/ NoReady
    \/ DispatchSingle
    \/ DispatchParallel
    \/ BuildInstructions
    \/ ResolverRaises
    \/ ModelReturns
    \/ ModelProviderError
    \/ ModelException
    \/ JoinSingle
    \/ JoinGather
    \/ ReturnNothing
    \/ ReturnSingle
    \/ ReturnSynthesized

FaultSpec == Init /\ [][FaultNext]_vars

(***************************************************************************)
(* orchestrate (engine/main_loop.py) with route (orchestration/router.py), *)
(* plan (orchestration/planner.py) and SessionMemory.add_turn              *)
(* (context/session.py).  The context strings given to the router, the     *)
(* planner and the direct assistant only enter their prompts and are left  *)
(* out; a Turn is [role, content], its token count is left out.            *)
(***************************************************************************)
S_endoftext ==
    <<"<", "|", "e", "n", "d", "o", "f", "t", "e", "x", "t", "|", ">">>

S_apologize ==
    <<"I", " ", "a", "p", "o", "l", "o", "g", "i", "z", "e", ",", " ", "b",
      "u", "t", " ", "I", "'", "m", " ", "h", "a", "v", "i", "n", "g", " ",
      "t", "r", "o", "u", "b", "l", "e", " ", "r", "e", "s", "p", "o", "n",
      "d", "i", "n", "g", " ", "r", "i", "g", "h", "t", " ", "n", "o", "w",
      ".", " ", "E", "r", "r", "o", "r", ":", " ">>

S_fallback ==
    <<"f", "a", "l", "l", "b", "a", "c", "k">>

Requests == {<<"h", "i">>, S_endoftext}

\* what a session holds when orchestrate is called: nothing, or an earlier
\* exchange
EarlierTurns ==
    {<<>>, <<[role |-> "user", content |-> <<"h", "i">>],
             [role |-> "assistant", content |-> <<"r">>]>>}

\* self._encoder.encode(content): with the default disallowed_special="all"
\* the encoder raises ValueError on text that holds a special token
encode_raises(content) == Contains(content, S_endoftext)

\* session.add_turn(role, content), when encode returns
add_turn(turns, role, content) == Append(turns, [role |-> role, content |-> content])

\* emit(event_type, ...): on_event is awaited when given, whatever it raises
\* is swallowed
emit(evs, event_type) ==
    IF args.on_event = "None" THEN evs ELSE Append(evs, event_type)

RouteDecision(path, reasoning) == [path |-> path, reasoning |-> reasoning]

\* what one router.run can do: return a decision or raise
RouterOutcomes ==
    {[kind |-> "ok", content |-> RouteDecision(p, "model")] : p \in {"direct", "agent"}}
        \cup {[kind |-> k, content |-> NoDecision] : k \in {"ModelProviderError", "Exception"}}

\* the model calls made by a walk down a chain: up to the first that returns
chain_calls(chain, outcomes) ==
    LET oks == {i \in 1..Len(chain) : outcomes[i].kind = "ok"}
        last == IF oks = {} THEN Len(chain)
                ELSE CHOOSE i \in oks : \A j \in oks : i <= j
    IN  [i \in 1..last |-> [model |-> chain[i], kind |-> outcomes[i].kind]]

\* variant: only the model at i is tried; when it fails the fallback decision
\* is returned at once
route_from_first_only(i, outcomes) ==
    IF i <= Len(MODEL_CHAINS.router) /\ outcomes[i].kind = "ok"
    THEN outcomes[i].content
    ELSE RouteDecision("direct", "Fallback due to model errors")

RECURSIVE route_from(_, _)
route_from(i, outcomes) ==
    IF i > Len(MODEL_CHAINS.router)
    THEN RouteDecision("direct", "Fallback due to model errors")
    ELSE IF outcomes[i].kind = "ok" THEN outcomes[i].content
    ELSE route_from(i + 1, outcomes)

\* route(request, context); outcomes[i]: what the i-th router model does, if
\* called
route(outcomes) == route_from(1, outcomes)

ExecutionPlan(subtasks) == [subtasks |-> subtasks]

\* plans a planner model may return
PlannerPlans ==
    {ExecutionPlan(MakePlan(n, {}, [i \in 1..n |-> <<>>])) : n \in 0..2}

PlannerOutcomes ==
    {[kind |-> "ok", content |-> p] : p \in PlannerPlans}
        \cup {[kind |-> k, content |-> ExecutionPlan(<<>>)] :
                    k \in {"ModelProviderError", "Exception"}}

RECURSIVE plan_from(_, _)
plan_from(i, outcomes) ==
    IF i > Len(MODEL_CHAINS.planner)
    THEN ExecutionPlan(<<Subtask(S_fallback, {}, <<>>)>>)
    ELSE IF outcomes[i].kind = "ok" THEN outcomes[i].content
    ELSE plan_from(i + 1, outcomes)

\* plan(request, available_tools, context); outcomes[i]: what the i-th
\* planner model does, if called
planner_plan(outcomes) == plan_from(1, outcomes)

\* getattr on a model object: a field the class does not declare raises
\* AttributeError
has_attr(obj, name) == name \in DOMAIN obj

FacadeInit ==
    /\ plan = <<>>
    /\ results = <<>>
    /\ completed = {}
    /\ ready = <<>>
    /\ tasks = <<>>
    /\ pc = "loop"
    /\ output = <<>>
    /\ started = <<>>
    /\ skipped = {}
    /\ evaluated = <<>>
    /\ early_exit = FALSE
    /\ synth_args = <<>>
    /\ iters = 0
    /\ returns = <<>>
    /\ exhausted = {}
    /\ synth_out = <<>>
    /\ args \in [request : Requests, has_session : BOOLEAN,
                  on_event : {"None", "delivers", "raises"},
                  mcp_command : {"None", "cmd"},
                  mcp_manager : {"None", "no servers", "servers"}]
    /\ session \in IF args.has_session THEN EarlierTurns ELSE {<<>>}
    /\ fpc = "start"
    /\ decision = NoDecision
    /\ available_tools = {}
    /\ manual_mcp = "None"
    /\ execution_plan = ExecutionPlan(<<>>)
    /\ response = <<>>
    /\ raised = ""
    /\ calls = <<>>
    /\ events = <<>>
    /\ PureIdle

\* if session: session.add_turn("user", request); router_context; emit("routing")
AddUserTurn ==
    /\ fpc = "start"
    /\ IF args.has_session /\ encode_raises(args.request)
       THEN /\ fpc' = "raised"
            /\ raised' = "ValueError"
            /\ UNCHANGED <<session, events>>
       ELSE /\ session' = IF args.has_session
                          THEN add_turn(session, "user", args.request)
                          ELSE session
            /\ events' = emit(events, "routing")
            /\ fpc' = "route"
            /\ UNCHANGED raised
    /\ UNCHANGED <<pvars, svars, args, decision, available_tools, manual_mcp,
                   execution_plan, response, calls>>

\* decision = route(request, context=router_context); emit("routed")
Route ==
    /\ fpc = "route"
    /\ \E outcomes \in [1..Len(MODEL_CHAINS.router) -> RouterOutcomes] :
        /\ decision' = route(outcomes)
        /\ calls' = Append(calls, [fn |-> "route",
                                   tried |-> chain_calls(MODEL_CHAINS.router, outcomes)])
        /\ fpc' = IF route(outcomes).path = "direct" THEN "direct" ELSE "discover"
    /\ events' = emit(events, "routed")
    /\ UNCHANGED <<pvars, svars, args, session, available_tools, manual_mcp,
                   execution_plan, response, raised>>

\* variant: the direct branch does not return and goes on to the agent branch
DirectAnswer_falls_through ==
    /\ fpc = "direct"
    /\ events' = emit(events, "responding")
    /\ calls' = Append(calls, [fn |-> "agent.run",
                               tried |-> <<[model |-> MODEL_CHAINS.agent[1],
                                            kind |-> "ok"]>>])
    /\ fpc' = "discover"
    /\ UNCHANGED <<pvars, svars, args, session, decision, available_tools, manual_mcp,
                   execution_plan, response, raised>>

\* the direct branch: emit("responding"); one agent.run on get_model("agent");
\* the response is added to the session and returned; any exception of the
\* try block gives the apology
DirectAnswer ==
    /\ fpc = "direct"
    /\ events' = emit(events, "responding")
    /\ \E outcome \in Outcomes :
        /\ calls' = Append(calls, [fn |-> "agent.run",
                                   tried |-> <<[model |-> MODEL_CHAINS.agent[1],
                                                kind |-> outcome.kind]>>])
        /\ IF outcome.kind # "ok"
           THEN /\ response' = S_apologize \o outcome.text
                /\ UNCHANGED session
           ELSE IF ~args.has_session
           THEN /\ response' = outcome.text
                /\ UNCHANGED session
           ELSE IF encode_raises(outcome.text)
           THEN /\ response' = S_apologize
                /\ UNCHANGED session
           ELSE /\ response' = outcome.text
                /\ session' = add_turn(session, "assistant", outcome.text)
    /\ fpc' = "returned"
    /\ UNCHANGED <<pvars, svars, args, decision, available_tools, manual_mcp,
                   execution_plan, raised>>

\* emit("planning"); planner_context; the tools: of mcp_command when given
\* (a failed connection is caught and leaves none), otherwise of the manager
\* when it has servers (close_all leaves a manager without servers)
Discover ==
    /\ fpc = "discover"
    /\ events' = emit(events, "planning")
    /\ IF args.mcp_command # "None"
       THEN \E connected \in BOOLEAN :
                /\ manual_mcp' = IF connected THEN "open" ELSE "None"
                /\ available_tools' = IF connected THEN {"manual tool"} ELSE {}
       ELSE /\ available_tools' = IF args.mcp_manager = "servers"
                                        /\ web.handed \notin web.closed
                                  THEN {"server tool"} ELSE {}
            /\ UNCHANGED manual_mcp
    /\ fpc' = "planning"
    /\ UNCHANGED <<pvars, svars, args, session, decision, execution_plan, response,
                   raised, calls>>

\* execution_plan = plan(request, available_tools, context=planner_context)
Plan ==
    /\ fpc = "planning"
    /\ \E outcomes \in [1..Len(MODEL_CHAINS.planner) -> PlannerOutcomes] :
        /\ execution_plan' = planner_plan(outcomes)
        /\ calls' = Append(calls, [fn |-> "plan",
                                   tried |-> chain_calls(MODEL_CHAINS.planner, outcomes)])
    /\ fpc' = "report"
    /\ UNCHANGED <<pvars, svars, args, session, decision, available_tools, manual_mcp,
                   response, raised, events>>

\* print(f"  -> Mode: {execution_plan.mode}"): ExecutionPlan declares subtasks
\* only, reading mode raises AttributeError, outside every try block.  What
\* follows in orchestrate (the subtask listing, emit("planned"), execute, the
\* closing of manual_mcp, the assistant turn) is not reached.
ReportPlan ==
    /\ fpc = "report"
    /\ IF has_attr(execution_plan, "mode")
       THEN /\ fpc' = "execute"
            /\ UNCHANGED raised
       ELSE /\ fpc' = "raised"
            /\ raised' = "AttributeError"
    /\ UNCHANGED <<pvars, svars, args, session, decision, available_tools, manual_mcp,
                   execution_plan, response, calls, events>>

FacadeNext ==
    \/ AddUserTurn
    \/ Route
    \/ DirectAnswer
    \/ Discover
    \/ Plan
    \/ ReportPlan

FacadeSpec == FacadeInit /\ [][FacadeNext]_vars

(***************************************************************************)
(* filter_tools_for_subtask (graph_executor.py) and                        *)
(* MCPManager.get_tools_for_subtask (tools/mcp/manager.py), checked under  *)
(* ResolverSpec.  An MCPTools object is [name, has_functions, functions]:  *)
(* name stands for its identity id(mcp), has_functions for                 *)
(* hasattr(mcp, 'functions'), functions for the keys of mcp.functions.     *)
(* all_tools and the values of MCPManager.servers are lists in discovery   *)
(* order.                                                                  *)
(***************************************************************************)
\* largest number of providers handed to execute
MaxProviders == 3
\* largest length of subtask.tools
MaxTools == 2

\* tool names a provider may expose
ExposedNames == {"x", "y"}

\* tool names a planner may write into subtask.tools
RequestedNames == ExposedNames \cup {"z"}

MCPTools(name, has_functions, functions) ==
    [name |-> name, has_functions |-> has_functions, functions |-> functions]

ProviderKinds ==
    {[has_functions |-> TRUE, functions |-> F] : F \in SUBSET ExposedNames}
        \cup {[has_functions |-> FALSE, functions |-> {}]}

\* the providers of a run in discovery order: the i-th discovered is object i
ProviderLists ==
    UNION {{[i \in 1..n |-> MCPTools(i, k[i].has_functions, k[i].functions)] :
                k \in [1..n -> ProviderKinds]} : n \in 1..MaxProviders}

ToolLists == UNION {[1..n -> RequestedNames] : n \in 0..MaxTools}

MCPManager(servers) == [present |-> TRUE, servers |-> servers]

\* hasattr(mcp, 'functions') and tool_name in mcp.functions
exposes(mcp, tool_name) == mcp.has_functions /\ tool_name \in mcp.functions

\* MCPManager.get_server_for_tool: the first server that has the tool, as a
\* list of one, or the empty list for None
get_server_for_tool(servers, tool_name) ==
    LET hits == {i \in 1..Len(servers) : exposes(servers[i], tool_name)}
    IN  IF hits = {} THEN <<>>
        ELSE <<servers[CHOOSE i \in hits : \A j \in hits : i <= j]>>

\* id(server) in seen
seen(needed, mcp) == \E k \in 1..Len(needed) : needed[k].name = mcp.name

RECURSIVE needed_servers(_, _, _, _)
\* for tool_name in tool_names: ... needed_servers.append(server)
needed_servers(servers, tool_names, i, needed) ==
    IF i > Len(tool_names) THEN needed
    ELSE LET server == get_server_for_tool(servers, tool_names[i])
         IN  IF server # <<>> /\ ~seen(needed, server[1])
             THEN needed_servers(servers, tool_names, i + 1, Append(needed, server[1]))
             ELSE needed_servers(servers, tool_names, i + 1, needed)

\* MCPManager.get_tools_for_subtask(tool_names)
get_tools_for_subtask(servers, tool_names) ==
    IF tool_names = <<>> THEN servers
    ELSE LET needed == needed_servers(servers, tool_names, 1, <<>>)
         IN  IF needed # <<>> THEN needed ELSE servers

RECURSIVE scan(_, _, _, _)
\* for mcp in all_tools: ... needed.append(mcp)
scan(all_tools, tools, i, needed) ==
    IF i > Len(all_tools) THEN needed
    ELSE LET mcp == all_tools[i]
         IN  IF ~mcp.has_functions
             THEN scan(all_tools, tools, i + 1, needed)
             ELSE IF \E k \in 1..Len(tools) : tools[k] \in mcp.functions /\ ~seen(needed, mcp)
             THEN scan(all_tools, tools, i + 1, Append(needed, mcp))
             ELSE scan(all_tools, tools, i + 1, needed)

\* variant: "return needed", without the fallback to all_tools
filter_tools_for_subtask_needed(tools, all_tools, mcp_manager) ==
    IF tools = <<>> THEN all_tools
    ELSE IF mcp_manager.present
    THEN get_tools_for_subtask(mcp_manager.servers, tools)
    ELSE scan(all_tools, tools, 1, <<>>)

\* filter_tools_for_subtask(subtask, all_tools, mcp_manager), tools being
\* subtask.tools
filter_tools_for_subtask(tools, all_tools, mcp_manager) ==
    IF tools = <<>> THEN all_tools
    ELSE IF mcp_manager.present
    THEN get_tools_for_subtask(mcp_manager.servers, tools)
    ELSE LET needed == scan(all_tools, tools, 1, <<>>)
         IN  IF needed # <<>> THEN needed ELSE all_tools

\* no execute run is under way
NoRun ==
    /\ plan = <<>>
    /\ results = <<>>
    /\ completed = {}
    /\ ready = <<>>
    /\ tasks = <<>>
    /\ pc = "loop"
    /\ output = <<>>
    /\ started = <<>>
    /\ skipped = {}
    /\ evaluated = <<>>
    /\ early_exit = FALSE
    /\ synth_args = <<>>
    /\ iters = 0
    /\ returns = <<>>
    /\ exhausted = {}
    /\ synth_out = <<>>

\* execute hands execute_subtask either the manager and the list of its
\* servers (main_loop.py lines 145-146) or a list without a manager
\* (line 142)
ResolverInit ==
    /\ NoRun
    /\ FacadeIdle
    /\ connect_call = NoConnectCall
    /\ web = NoWeb
    /\ context_call = NoContextCall
    /\ evaluate_call = NoEvaluateCall
    /\ \E tools \in ToolLists, all_tools \in ProviderLists, managed \in BOOLEAN :
        filter_call = [tools |-> tools, all_tools |-> all_tools,
                       mcp_manager |-> IF managed THEN MCPManager(all_tools)
                                       ELSE NoManager,
                       returned |-> FALSE, filtered_tools |-> <<>>]

\* filtered_tools = filter_tools_for_subtask(subtask, all_tools, mcp_manager)
FilterTools ==
    /\ ~filter_call.returned
    /\ filter_call.all_tools # <<>>
    /\ filter_call' =
        [filter_call EXCEPT
            !.returned = TRUE,
            !.filtered_tools = filter_tools_for_subtask(filter_call.tools,
                                    filter_call.all_tools, filter_call.mcp_manager)]
    /\ UNCHANGED <<svars, fvars, evaluate_call, context_call, web, connect_call>>

ResolverNext == FilterTools

ResolverSpec == ResolverInit /\ [][ResolverNext]_vars

(***************************************************************************)
(* evaluate_condition run on its own, checked under ConditionSpec.  A      *)
(* condition text is written by the planner from a shape, a subtask id and *)
(* a term; about records what it was written from.                         *)
(***************************************************************************)
\* subtask ids the conditions and the results dict are about
ConditionIds == {<<"a">>, <<"B">>}

\* the reference to a subtask in a condition: its id, or "<id>.result"
Refs(id) == {id, id \o S_dot_result}

ConditionTerms == {<<"r">>, <<"R">>, <<"x">>, S_is_empty}

\* a term is written bare, in single or in double quotes
Quotes == {<<>>, <<"'">>, <<"\"">>}

S_Contains == <<" ", "C", "o", "n", "t", "a", "i", "n", "s", " ">>

S_always == <<"a", "l", "w", "a", "y", "s">>

ConditionText(text, shape, id, term) ==
    [text |-> text, about |-> [shape |-> shape, id |-> id, term |-> term]]

ContainsConditions ==
    {ConditionText(ref \o S_contains \o q \o term \o q, "contains", id, term) :
        <<id, ref>> \in {x \in ConditionIds \X UNION {Refs(i) : i \in ConditionIds} :
                            x[2] \in Refs(x[1])},
        term \in ConditionTerms, q \in Quotes}

EmptinessConditions ==
    {ConditionText(ref \o <<" ">> \o S_is_not_empty, "is not empty", id, <<>>) :
        <<id, ref>> \in {x \in ConditionIds \X UNION {Refs(i) : i \in ConditionIds} :
                            x[2] \in Refs(x[1])}}
    \cup
    {ConditionText(ref \o <<" ">> \o S_is_empty, "is empty", id, <<>>) :
        <<id, ref>> \in {x \in ConditionIds \X UNION {Refs(i) : i \in ConditionIds} :
                            x[2] \in Refs(x[1])}}

\* no condition, a text of no recognized shape, and a text whose " contains "
\* is not in lower case
OtherConditions ==
    {ConditionText(<<>>, "absent", <<>>, <<>>),
     ConditionText(S_always, "other", <<>>, <<>>),
     ConditionText(<<"a">>, "other", <<>>, <<>>),
     ConditionText(<<"a">> \o S_Contains \o <<"r">>, "other", <<>>, <<>>)}

ConditionTexts == ContainsConditions \cup EmptinessConditions \cup OtherConditions

\* texts execute_subtask may have returned
ResultTexts == {<<>>, <<" ">>, <<"r">>, <<"x", "R">>}

\* the results dict: each id of ConditionIds is absent or has a text
ResultDicts ==
    UNION {{[i \in 1..Len(ks) |-> [id |-> ks[i], text |-> t[i]]] :
                t \in [1..Len(ks) -> ResultTexts]} :
            ks \in {<<>>, <<<<"a">>>>, <<<<"B">>>>, <<<<"a">>, <<"B">>>>}}

ConditionInit ==
    /\ NoRun
    /\ FacadeIdle
    /\ connect_call = NoConnectCall
    /\ web = NoWeb
    /\ context_call = NoContextCall
    /\ filter_call = NoFilterCall
    /\ \E c \in ConditionTexts, r \in ResultDicts :
        evaluate_call = [condition |-> c.text, results |-> r, about |-> c.about,
                         returned |-> FALSE, raised |-> FALSE, value |-> FALSE]

\* evaluate_condition(subtask.condition, results)
EvaluateCondition ==
    /\ ~evaluate_call.returned
    /\ evaluate_call.about.shape # ""
    /\ LET outcome == evaluate_outcome(evaluate_call.condition, evaluate_call.results)
       IN  evaluate_call' = [evaluate_call EXCEPT !.returned = TRUE,
                                                  !.raised = outcome.raised,
                                                  !.value = outcome.value]
    /\ UNCHANGED <<svars, fvars, filter_call, context_call, web, connect_call>>

ConditionNext == EvaluateCondition

ConditionSpec == ConditionInit /\ [][ConditionNext]_vars

(***************************************************************************)
(* Graph vocabulary of the properties.                                     *)
(***************************************************************************)
DepsOf(p, id) == UNION {p[i].depends_on : i \in {j \in 1..Len(p) : p[j].id = id}}

RECURSIVE Reach(_, _, _)
Reach(p, S, k) ==
    IF k = 0 THEN S
    ELSE Reach(p, S \cup UNION {DepsOf(p, x) : x \in S}, k - 1)

\* every id the subtask depends on, directly or transitively
TransDeps(p, id) == Reach(p, DepsOf(p, id), Len(p))

Acyclic(p) == \A i \in 1..Len(p) : p[i].id \notin TransDeps(p, p[i].id)

\* depends_on references only ids of the plan
Closed(p) == \A i \in 1..Len(p) : p[i].depends_on \subseteq PlanIds(p)

\* the subtask depends, directly or transitively, on an id missing from the plan
Orphaned(p, id) == \E x \in TransDeps(p, id) : x \notin PlanIds(p)

\* the subtask is on a dependency cycle or depends on one, or is orphaned
Unsatisfiable(p, id) ==
    \/ Orphaned(p, id)
    \/ \E x \in TransDeps(p, id) \cup {id} : x \in PlanIds(p) /\ x \in TransDeps(p, x)

Remaining == PlanIds(plan) \ completed

Count(seq, x) == Cardinality({i \in DOMAIN seq : seq[i] = x})

(***************************************************************************)
(* C1: for every acyclic plan with unique ids whose depends_on reference   *)
(* only ids of the plan, listed in any order, with or without conditions,  *)
(* execute returns with completed equal to the set of all subtask ids.     *)
(* Violated by the code: a pass of get_ready_subtasks that only skips      *)
(* subtasks returns an empty list and execute breaks, although the skip    *)
(* has just made a subtask listed earlier runnable.                        *)
(***************************************************************************)
C1_AcyclicPlanCompletes ==
    (pc = "done" /\ Acyclic(plan) /\ Closed(plan)) => completed = PlanIds(plan)

(***************************************************************************)
(* C2: execute_subtask is called at most once per subtask id in one run;   *)
(* on the diamond a and d are each called exactly once by the time execute *)
(* returns, and d is called only after b and c have both completed (their  *)
(* results are recorded).                                                  *)
(***************************************************************************)
C2_AtMostOnce ==
    /\ \A id \in PlanIds(plan) : Count(started, id) <= 1
    /\ plan \in DiamondPlans =>
        /\ <<"d">> \in Range(started) =>
              /\ {<<"b">>, <<"c">>} \subseteq Keys(results)
              /\ {<<"b">>, <<"c">>} \subseteq completed
        /\ Count(started, <<"a">>) = 1 \/ (pc = "loop" /\ completed = {})
        /\ pc = "done" => Count(started, <<"a">>) = 1 /\ Count(started, <<"d">>) = 1

\* the diamond has run to the end: four calls, d the last
C2_Witness ==
    /\ plan \in DiamondPlans
    /\ pc = "done"
    /\ Len(started) = 4
    /\ started[1] = <<"a">>
    /\ started[4] = <<"d">>

(***************************************************************************)
(* C3 as stated: a subtask is dispatched only when every id of its         *)
(* depends_on has a result recorded in results.                            *)
(***************************************************************************)
C3_DepsHaveResults ==
    \A i \in 1..Len(tasks) : ready[i].depends_on \subseteq Keys(results)

(***************************************************************************)
(* C3 amended: a subtask is dispatched only when every id of its           *)
(* depends_on is in completed, that is, has a result recorded in results   *)
(* or was skipped because its condition was false.                         *)
(***************************************************************************)
C3_DepsCompleted ==
    \A i \in 1..Len(tasks) :
        /\ ready[i].depends_on \subseteq completed
        /\ ready[i].depends_on \subseteq Keys(results) \cup skipped

\* a subtask is running whose dependency was skipped and has no result
C3_Witness ==
    \E i \in 1..Len(tasks) :
        /\ tasks[i].status = "running"
        /\ \E dep \in ready[i].depends_on : dep \in skipped /\ dep \notin Keys(results)

(***************************************************************************)
(* C4: a subtask skipped by a false condition is in completed, has no      *)
(* entry in results, and is never executed or given an entry later in the  *)
(* run (skipped only grows, so this holds from the skip to the end).       *)
(***************************************************************************)
C4_SkipIrreversible ==
    \A id \in skipped :
        /\ id \in completed
        /\ id \notin Keys(results)
        /\ id \notin Range(started)
        /\ \A i \in 1..Len(tasks) : tasks[i].id # id

\* after a skip the run went on: a dependent of the skipped subtask got a result
C4_Witness ==
    /\ pc = "done"
    /\ \E i \in 1..Len(plan) :
        /\ plan[i].id \in Keys(results)
        /\ plan[i].depends_on \cap skipped # {}

(***************************************************************************)
(* C5: the empty-frontier break is taken only when every remaining subtask *)
(* has a dependency that can never be satisfied (a missing id or a cycle,  *)
(* directly or transitively), never while a remaining subtask has all its  *)
(* depends_on in completed.  Violated by the code in the same way as C1.   *)
(***************************************************************************)
C5_BreakOnlyWhenStuck ==
    early_exit =>
        \A i \in 1..Len(plan) :
            plan[i].id \in Remaining =>
                /\ Unsatisfiable(plan, plan[i].id)
                /\ ~(plan[i].depends_on \subseteq completed)

(***************************************************************************)
(* C6: execute terminates for every plan (cycles, self-dependencies and    *)
(* dangling ids included) when every backend call completes: every         *)
(* iteration that dispatches a frontier adds a new id to completed, the    *)
(* loop dispatches at most len(plan.subtasks) frontiers, and the run       *)
(* cannot go on for ever: until execute has returned a step is always      *)
(* possible (a pending backend call can complete, or execute itself can    *)
(* move), and every step lowers Rank, a natural number.                    *)
(***************************************************************************)
\* some action of Next is enabled, read off the guards of the actions
StepPossible ==
    \/ pc = "loop"
    \/ pc = "select"
    \/ /\ pc \in {"single", "gather"}
       /\ \E i \in 1..Len(tasks) : ~finished(tasks[i])
    \/ /\ pc = "single"
       /\ Len(tasks) >= 1
       /\ finished(tasks[1])
    \/ /\ pc = "gather"
       /\ \A i \in 1..Len(tasks) : finished(tasks[i])

\* steps a coroutine may still take: building its instructions, backend calls
CallsLeft(t) ==
    CASE t.status = "created" -> Len(MODEL_CHAINS.agent) + 1
      [] t.status = "running" -> Len(MODEL_CHAINS.agent) - Len(t.tried)
      [] OTHER -> 0

RECURSIVE SumCallsLeft(_, _)
SumCallsLeft(tsk, i) ==
    IF i > Len(tsk) THEN 0 ELSE CallsLeft(tsk[i]) + SumCallsLeft(tsk, i + 1)

\* more than the steps one iteration of the loop can take
RankBase == Len(plan) * (Len(MODEL_CHAINS.agent) + 1) + 4

Rank ==
    Cardinality(PlanIds(plan) \ completed) * RankBase
        + CASE pc = "loop" -> RankBase - 1
            [] pc \in {"single", "gather"} -> SumCallsLeft(tasks, 1) + 2
            [] pc = "select" -> 1
            [] OTHER -> 0

\* C6: at most len(plan) dispatching iterations, a step is always possible
\* before execute has returned, every step lowers Rank, every join adds a new
\* id to completed: execute terminates
C6_Terminates ==
    /\ [](iters <= Len(plan))
    /\ [](pc # "done" => StepPossible)
    /\ [][/\ Rank' < Rank
          /\ (pc \in {"single", "gather"} /\ pc' = "loop") =>
                (completed \subseteq completed' /\ completed' # completed)]_vars

\* a cyclic plan that dispatched a frontier and ended by the empty-frontier break
C6_Witness ==
    /\ pc = "done"
    /\ ~Acyclic(plan)
    /\ iters >= 1
    /\ early_exit

(***************************************************************************)
(* C7: when a subtask depends on an id missing from the plan (and the rest *)
(* of the plan is acyclic), execute ends by the empty-frontier break       *)
(* without raising, the orphaned subtask and all that transitively depend  *)
(* on it have no entry in results nor in what the reducer is given, and    *)
(* every other subtask was executed or skipped.  The last part is violated *)
(* by the code, through the break of C1 only.                              *)
(***************************************************************************)
C7_OrphansOnlyAreLeft ==
    (/\ \E i \in 1..Len(plan) : Orphaned(plan, plan[i].id)
     /\ \A i \in 1..Len(plan) :
            Orphaned(plan, plan[i].id) \/ plan[i].id \notin TransDeps(plan, plan[i].id))
    =>  /\ pc # "raised"
        /\ \A i \in 1..Len(plan) :
            Orphaned(plan, plan[i].id) =>
                /\ plan[i].id \notin Keys(results)
                /\ \A k \in 1..Len(synth_args) : plan[i].id \notin Keys(synth_args[k])
        /\ pc = "done" =>
            /\ early_exit
            /\ \A i \in 1..Len(plan) :
                ~Orphaned(plan, plan[i].id) => plan[i].id \in completed

(***************************************************************************)
(* C8: two subtasks with no dependencies and no conditions are dispatched  *)
(* in the same frontier and run concurrently, and whatever the order in    *)
(* which their execute_subtask calls return, synthesize is given a results *)
(* dict holding exactly the text each of the two returned.                 *)
(***************************************************************************)
Independent(st) == st.depends_on = {} /\ st.condition = <<>>

TwoIndependent == Len(plan) = 2 /\ \A i \in 1..2 : Independent(plan[i])

\* C8: independent unconditional subtasks are all in the first frontier; of
\* two such subtasks both run concurrently and synthesize gets both results
C8_BothReachReducer ==
    /\ \A i \in 1..Len(plan) :
        (Independent(plan[i]) /\ iters >= 1) =>
            /\ plan[i].id \in Range(started)
            /\ iters = 1 /\ pc \in {"single", "gather"} =>
                    \E k \in 1..Len(tasks) : tasks[k].id = plan[i].id
    /\ TwoIndependent =>
        /\ pc # "single"
        /\ pc = "gather" => Len(tasks) = 2 /\ started = <<plan[1].id, plan[2].id>>
        /\ pc = "done" =>
            /\ Len(returns) = 2
            /\ synth_args = <<results>>
            /\ Keys(results) = PlanIds(plan)
            /\ \A k \in 1..2 : Get(results, returns[k].id) = returns[k].text

\* the second subtask returned first, with another text, and both reached synthesize
C8_Witness ==
    /\ TwoIndependent
    /\ pc = "done"
    /\ returns[1].id = plan[2].id
    /\ returns[1].text # returns[2].text
    /\ Len(synth_args) = 1

C10_ChainInOrder ==
    /\ pc # "raised"
    /\ \A i \in 1..Len(tasks) :
        LET t == tasks[i]
            chain == MODEL_CHAINS.agent
            n == Len(t.tried)
        IN  /\ n <= Len(chain)
            /\ \A k \in 1..n : t.tried[k].model = chain[k]
            /\ \A k \in 1..(n - 1) : t.tried[k].kind # "ok"
            /\ t.status # "raised"
            /\ t.status = "running" =>
                /\ n < Len(chain)
                /\ t.idx = n + 1
                /\ \A k \in 1..n : t.tried[k].kind # "ok"
            /\ t.status = "returned" =>
                /\ n >= 1
                /\ IF t.tried[n].kind = "ok"
                   THEN t.ret = t.tried[n].text
                   ELSE n = Len(chain) /\ t.ret = S_unable \o t.id

\* the first model raised an exception that is no ModelProviderError and the
\* second returned: its text is what execute_subtask returned
C10_Witness ==
    \E i \in 1..Len(tasks) :
        /\ tasks[i].status = "returned"
        /\ Len(tasks[i].tried) = 2
        /\ tasks[i].tried[1].kind = "Exception"
        /\ tasks[i].tried[2].kind = "ok"
        /\ tasks[i].ret = <<"r">>


(***************************************************************************)
(* C11: when a run ends with exactly one entry in results (in particular   *)
(* for every plan of one subtask that ran), execute returns the text of    *)
(* that entry as it is, which is the text execute_subtask returned for     *)
(* that id, and synthesize is not called.                                  *)
(***************************************************************************)
C11_SingleResultVerbatim ==
    (pc = "done" /\ Len(results) = 1) =>
        /\ output = results[1].text
        /\ \E k \in 1..Len(returns) :
                returns[k] = [id |-> results[1].id, text |-> output]
        /\ synth_args = <<>>
        /\ synth_out = <<>>
        /\ (Len(plan) = 1 /\ started # <<>>) => output = returns[1].text

\* a plan of several subtasks of which only one got a result, a non-empty text
C11_Witness ==
    /\ pc = "done"
    /\ Len(plan) > 1
    /\ Len(results) = 1
    /\ output = <<"r">>

(***************************************************************************)
(* C12: when a run ends with no entry in results (an empty plan, or every  *)
(* subtask skipped or unreachable) execute returns "No subtasks were       *)
(* executed." and synthesize is not called; when it ends with two or more  *)
(* entries synthesize is called exactly once, with the whole results dict, *)
(* and execute returns what that call returned.                            *)
(***************************************************************************)
C12_ZeroOrManyResults ==
    /\ pc # "done" => synth_args = <<>> /\ synth_out = <<>>
    /\ (pc = "done" /\ Len(results) = 0) =>
            /\ output = S_no_subtasks
            /\ synth_args = <<>>
            /\ synth_out = <<>>
    /\ (pc = "done" /\ Len(results) >= 2) =>
            /\ synth_args = <<results>>
            /\ Len(synth_out) = 1
            /\ output = synth_out[1].ret

\* three results went to synthesize after a subtask of the plan was skipped
C12_Witness ==
    /\ pc = "done"
    /\ skipped # {}
    /\ Len(results) >= 2
    /\ Len(synth_out) = 1
    /\ output = synth_out[1].ret

(***************************************************************************)
(* Vocabulary of the properties of orchestrate.                            *)
(***************************************************************************)
\* how many calls of fn orchestrate has made
CallCount(fn) == Cardinality({k \in 1..Len(calls) : calls[k].fn = fn})

\* orchestrate has ended, by return or by an exception
Ended == fpc \in {"returned", "raised"}

(***************************************************************************)
(* C13: every exception raised in the call chain of orchestrate (session   *)
(* update, routing, direct answer, tool discovery, planning, reporting the *)
(* plan, graph execution) is caught inside orchestrate and turned into an  *)
(* apologetic response: orchestrate never raises to its caller.  Violated  *)
(* by the code: reading execution_plan.mode when the plan is reported, and *)
(* session.add_turn on a request holding a special token, raise outside    *)
(* every try block.                                                        *)
(***************************************************************************)
C13_NeverRaises == fpc # "raised" /\ raised = ""

(***************************************************************************)
(* C14: on a request routed "agent", orchestrate calls plan once, then     *)
(* calls execute on the plan it got and returns what execute returned.     *)
(* Violated by the code: orchestrate is left by the AttributeError of C13  *)
(* before execute is called.                                               *)
(***************************************************************************)
C14_AgentDrivesScheduler ==
    (Ended /\ decision.path = "agent") =>
        /\ fpc = "returned"
        /\ CallCount("plan") = 1
        /\ CallCount("execute") = 1
        /\ \E k \in 1..Len(calls) :
            /\ calls[k].fn = "execute"
            /\ \E j \in 1..(k - 1) : calls[j].fn = "plan"
        /\ response = output

(***************************************************************************)
(* C15: on a request routed "direct" (by a router model, or by the         *)
(* fallback of route when every router model failed), orchestrate calls    *)
(* route exactly once and the backend (agent.run) exactly once, on the     *)
(* first model of the agent chain only, calls neither plan nor execute,    *)
(* and returns: the text of the backend, or the apology when it raised.    *)
(***************************************************************************)
C15_DirectPath ==
    decision.path = "direct" =>
        /\ fpc \in {"direct", "returned"}
        /\ CallCount("route") = 1
        /\ CallCount("plan") = 0
        /\ CallCount("execute") = 0
        /\ pc = "loop" /\ started = <<>> /\ manual_mcp = "None"
        /\ fpc = "direct" => calls = <<calls[1]>>
        /\ fpc = "returned" =>
            /\ CallCount("agent.run") = 1
            /\ Len(calls) = 2
            /\ calls[2].tried = <<[model |-> MODEL_CHAINS.agent[1],
                                   kind |-> calls[2].tried[1].kind]>>
            /\ calls[2].tried[1].kind = "ok" => response \in BackendTexts
            /\ calls[2].tried[1].kind # "ok" => response = S_apologize

\* every router model failed, route fell back to "direct", and the one backend
\* call raised: the apology was returned and no assistant turn was added
C15_Witness ==
    /\ fpc = "returned"
    /\ decision = RouteDecision("direct", "Fallback due to model errors")
    /\ Len(calls[1].tried) = Len(MODEL_CHAINS.router)
    /\ calls[2].tried[1].kind = "Exception"
    /\ response = S_apologize
    /\ args.has_session
    /\ session[Len(session)].role = "user"

(***************************************************************************)
(* C16: the members of a frontier of more than one subtask all run as      *)
(* concurrent units, and the next frontier is computed only after every    *)
(* member has finished; within one run no frontier computation overlaps    *)
(* another or a running execute_subtask: a frontier is computed only at    *)
(* the head of the loop, with no coroutine in flight, and while coroutines *)
(* are in flight the loop does not move.                                   *)
(***************************************************************************)
C16_Barrier ==
    /\ [](/\ pc \in {"loop", "select", "done"} => tasks = <<>>
          /\ pc = "single" => Len(tasks) = 1 /\ Len(ready) = 1
          /\ pc = "gather" =>
                /\ Len(tasks) > 1
                /\ Len(tasks) = Len(ready)
                /\ \A i \in 1..Len(tasks) : tasks[i].id = ready[i].id)
    /\ [][/\ (iters' # iters \/ early_exit' # early_exit) =>
                (pc = "loop" /\ tasks = <<>>)
          /\ (pc \in {"single", "gather"} /\ pc' = pc) =>
                (ready' = ready /\ iters' = iters /\ early_exit' = early_exit
                    /\ Len(tasks') = Len(tasks))
          /\ (pc = "gather" /\ pc' # "gather") =>
                (pc' = "loop" /\ \A i \in 1..Len(tasks) : finished(tasks[i]))]_vars

\* two members of one frontier in flight together: the second has returned
\* while the first, started before it, has made one call and is still running
C16_Witness ==
    /\ pc = "gather"
    /\ tasks[1].status = "running"
    /\ Len(tasks[1].tried) = 1
    /\ tasks[2].status = "returned"

(***************************************************************************)
(* C17: results and completed are written by the dispatch only after the   *)
(* dispatched coroutines have finished: while a frontier is in flight no   *)
(* entry of results is written (and completed does not change), so every   *)
(* member of a frontier builds its instructions from results as it was at  *)
(* the dispatch and never sees the result of a member of its own frontier. *)
(***************************************************************************)
C17_WrittenAfterJoin ==
    /\ [](\A i \in 1..Len(tasks) :
            /\ tasks[i].id \notin Keys(results)
            /\ \A e \in tasks[i].injected :
                /\ e.id \in Keys(results) /\ Get(results, e.id) = e.text
                /\ \A j \in 1..Len(tasks) : tasks[j].id # e.id)
    /\ [][/\ (pc \in {"single", "gather"} /\ pc' = pc) =>
                (results' = results /\ completed' = completed)
          /\ results' # results =>
                /\ pc \in {"single", "gather"} /\ pc' = "loop"
                /\ \A i \in 1..Len(tasks) : finished(tasks[i])
                /\ Keys(results') = Keys(results) \cup {tasks[i].id : i \in 1..Len(tasks)}
          /\ (completed' # completed /\ pc = "loop") =>
                completed' \ completed = skipped' \ skipped]_vars

\* a frontier in flight over a non-empty results: the first member has
\* returned, its text is not in results, and the second has built its
\* instructions from an earlier result
C17_Witness ==
    /\ pc = "gather"
    /\ tasks[1].status = "returned"
    /\ tasks[1].ret = <<"r">>
    /\ tasks[2].status = "running"
    /\ tasks[2].injected # {}
    /\ tasks[1].id \notin Keys(results)

(***************************************************************************)
(* C18: during one run over a plan with unique ids an entry of results,    *)
(* once written, is never overwritten or removed (results only grows at    *)
(* its end), and each id is added to completed exactly once: no id leaves  *)
(* completed, a join adds only ids that were neither in completed nor      *)
(* skipped, and a pass skips only ids that were neither in completed nor   *)
(* in results.                                                             *)
(***************************************************************************)
C18_AppendOnly ==
    [][/\ Len(results') >= Len(results)
       /\ SubSeq(results', 1, Len(results)) = results
       /\ \A i, j \in 1..Len(results') :
            results'[i].id = results'[j].id => i = j
       /\ completed \subseteq completed'
       /\ (skipped' \ skipped) \cap (completed \cup Keys(results)) = {}
       /\ (pc \in {"single", "gather"} /\ pc' = "loop") =>
            /\ \A i \in 1..Len(ready) :
                    ready[i].id \notin completed \cup skipped \cup Keys(results)
            /\ \A i, j \in 1..Len(ready) : ready[i].id = ready[j].id => i = j
            /\ completed' = completed \cup {ready[i].id : i \in 1..Len(ready)}]_vars

\* back at the head of the loop after two frontiers were joined and a subtask
\* was skipped
C18_Witness ==
    /\ pc = "loop"
    /\ iters = 2
    /\ Len(results) >= 2
    /\ skipped # {}

(***************************************************************************)
(* C19: the instructions given to the backend for a subtask hold a line    *)
(* "[Result from <id>]: <text>" for exactly the ids of its depends_on that *)
(* have an entry in results at dispatch (results does not change while the *)
(* subtask is in flight), each line with the text of that entry, which is  *)
(* the text execute_subtask returned for that id, each once, and hold no   *)
(* such line for an id outside its depends_on.                             *)
(***************************************************************************)
RECURSIVE Lines(_)
\* s.split("\n")
Lines(s) ==
    LET parts == split(s, <<"\n">>)
    IN  IF Len(parts) = 1 THEN <<s>> ELSE <<parts[1]>> \o Lines(parts[2])

\* the lines that follow the heading in the text appended to the instructions
ExcerptLines(t) ==
    LET text == enhanced_instructions(t)
    IN  IF text = <<>> THEN <<>>
        ELSE Lines(SubSeq(text, Len(S_previous) + 1, Len(text)))

C19_ExcerptsOfDependencies ==
    \A i \in 1..Len(tasks) :
        tasks[i].status # "created" =>
            LET lines == ExcerptLines(tasks[i])
                have == ready[i].depends_on \cap Keys(results)
            IN  /\ Len(lines) = Cardinality(have)
                /\ \A d \in have :
                    /\ \E k \in 1..Len(lines) :
                            lines[k] = <<"[", "R", "e", "s", "u", "l", "t", " ",
                                         "f", "r", "o", "m", " ">>
                                        \o d \o <<"]", ":", " ">> \o Get(results, d)
                    /\ \E k \in 1..Len(returns) :
                            returns[k] = [id |-> d, text |-> Get(results, d)]
                /\ \A x \in (PlanIds(plan) \cup {Ghost}) \ have :
                        \A k \in 1..Len(lines) :
                            ~MatchAt(lines[k], S_result_from \o x \o <<"]">>, 1)
                /\ (have = {}) = (enhanced_instructions(tasks[i]) = <<>>)

\* d of the diamond is in flight with the lines of b and c, and none of a,
\* which is in results too
C19_Witness ==
    /\ plan \in DiamondPlans
    /\ Len(tasks) = 1
    /\ tasks[1].id = <<"d">>
    /\ tasks[1].status = "running"
    /\ Len(ExcerptLines(tasks[1])) = 2
    /\ <<"a">> \in Keys(results)
    /\ Get(results, <<"b">>) # Get(results, <<"c">>)

(***************************************************************************)
(* C20: synthesize always returns a text and never raises: it calls the    *)
(* models of MODEL_CHAINS["synthesizer"] in order, returns the text of the *)
(* first call that returns, and when every call fails (by                  *)
(* ModelProviderError or by any other exception) returns the "<id>:        *)
(* <text>" of every entry of results, in the order in which the entries    *)
(* were inserted, separated by blank lines.                                *)
(***************************************************************************)
RECURSIVE Paragraphs(_)
\* s.split("\n\n")
Paragraphs(s) ==
    LET parts == split(s, <<"\n", "\n">>)
    IN  IF Len(parts) = 1 THEN <<s>> ELSE <<parts[1]>> \o Paragraphs(parts[2])

C20_SynthesizeFallback ==
    /\ Len(synth_out) = Len(synth_args)
    /\ pc = "done" => (Len(results) >= 2) = (Len(synth_out) = 1)
    /\ \A k \in 1..Len(synth_out) :
        LET call == synth_out[k]
            given == synth_args[k]
            chain == MODEL_CHAINS.synthesizer
            n == Len(call.tried)
        IN  /\ pc = "done"
            /\ n \in 1..Len(chain)
            /\ \A j \in 1..n : call.tried[j].model = chain[j]
            /\ \A j \in 1..(n - 1) : call.tried[j].kind # "ok"
            /\ IF call.tried[n].kind = "ok"
               THEN call.ret = call.tried[n].text
               ELSE /\ n = Len(chain)
                    /\ call.ret # <<>>
                    /\ Paragraphs(call.ret) =
                            [i \in 1..Len(given) |->
                                given[i].id \o <<":", " ">> \o given[i].text]

\* both synthesizer models failed, one by ModelProviderError and one by another
\* exception, over results inserted in another order than that of their ids
C20_Witness ==
    /\ Len(synth_out) = 1
    /\ synth_out[1].tried[1].kind = "ModelProviderError"
    /\ Len(synth_out[1].tried) = 2
    /\ synth_out[1].tried[2].kind = "Exception"
    /\ NameIndex(results[1].id) > NameIndex(results[2].id)
    /\ output = synth_out[1].ret

(***************************************************************************)
(* Vocabulary of the resolver properties.                                  *)
(***************************************************************************)
\* the provider exposes at least one of the requested names
Matches(mcp, tools) == \E k \in 1..Len(tools) : exposes(mcp, tools[k])

\* the sublist of the providers that match, in discovery order
RECURSIVE Matching(_, _)
Matching(all_tools, tools) ==
    IF all_tools = <<>> THEN <<>>
    ELSE IF Matches(all_tools[1], tools)
    THEN <<all_tools[1]>> \o Matching(Tail(all_tools), tools)
    ELSE Matching(Tail(all_tools), tools)

(***************************************************************************)
(* C21: filter_tools_for_subtask returns all providers, as they were       *)
(* given, when subtask.tools is empty; when subtask.tools is not empty and *)
(* no provider exposes any of its names it returns all providers too, not  *)
(* an empty list; both with an MCPManager and with the linear scan.        *)
(***************************************************************************)
C21_AllWhenEmptyOrNoMatch ==
    filter_call.returned =>
        LET c == filter_call
            none == \A i \in 1..Len(c.all_tools) : ~Matches(c.all_tools[i], c.tools)
        IN  /\ c.tools = <<>> => c.filtered_tools = c.all_tools
            /\ (c.tools # <<>> /\ none) =>
                    /\ c.filtered_tools = c.all_tools
                    /\ c.filtered_tools # <<>>

\* an MCPManager with two servers, one exposing a tool, and a subtask that
\* asks for a tool no server exposes: both servers are returned
C21_Witness ==
    /\ filter_call.returned
    /\ filter_call.mcp_manager.present
    /\ filter_call.tools = <<"z">>
    /\ Len(filter_call.all_tools) = 2
    /\ filter_call.all_tools[1].functions = {"x"}
    /\ filter_call.filtered_tools = filter_call.all_tools

(***************************************************************************)
(* C22: when subtask.tools is not empty and some provider exposes one of   *)
(* its names, filter_tools_for_subtask returns exactly the providers that  *)
(* expose at least one of the names, each once, in the order in which the  *)
(* providers were discovered, whatever the order of the names.             *)
(* Violated by the code: with an MCPManager the providers come in the      *)
(* order of the requested names, and of several providers exposing one     *)
(* name only the first discovered is returned.                             *)
(***************************************************************************)
C22_MatchingInDiscoveryOrder ==
    (filter_call.returned /\ filter_call.tools # <<>>
        /\ Matching(filter_call.all_tools, filter_call.tools) # <<>>) =>
            filter_call.filtered_tools =
                Matching(filter_call.all_tools, filter_call.tools)

(***************************************************************************)
(* C23: evaluate_condition fails open and never raises: it returns True    *)
(* for an empty or absent condition, for a text in which none of           *)
(* " contains ", "is not empty", "is empty" is recognized, and whenever    *)
(* the parsing in its try block raises.                                    *)
(***************************************************************************)
C23_FailOpen ==
    evaluate_call.returned =>
        LET c == evaluate_call
            low == lower(c.condition)
            recognized == \/ Contains(low, S_contains)
                          \/ Contains(low, S_is_not_empty)
                          \/ Contains(low, S_is_empty)
        IN  /\ ~c.raised
            /\ c.condition = <<>> => c.value
            /\ ~recognized => c.value
            /\ c.about.shape \in {"absent", "other"} => c.value
            /\ (c.condition # <<>> /\ condition_body(c.condition, c.results).raised)
                    => c.value

\* "a Contains r": " contains " is found in the lower-cased text, the split of
\* the text as written gives one part, parts[1] raises IndexError, and the
\* call returns True
C23_Witness ==
    /\ evaluate_call.returned
    /\ evaluate_call.condition = <<"a">> \o S_Contains \o <<"r">>
    /\ condition_body(evaluate_call.condition, evaluate_call.results).raised
    /\ ~evaluate_call.raised
    /\ evaluate_call.value

(***************************************************************************)
(* C24: a condition "<id> contains <term>", the term bare or in quotes,    *)
(* the id with or without a trailing ".result", is True iff id is a key    *)
(* of results whose text contains the term ignoring case, and False when   *)
(* id is no key; the shape is recognized before the two emptiness shapes   *)
(* (a term "is empty" does not turn the condition into an emptiness test). *)
(***************************************************************************)
C24_ContainsShape ==
    (evaluate_call.returned /\ evaluate_call.about.shape = "contains") =>
        LET c == evaluate_call
        IN  /\ ~c.raised
            /\ c.value = (/\ c.about.id \in Keys(c.results)
                          /\ Contains(lower(Get(c.results, c.about.id)),
                                      lower(c.about.term)))

\* "B.result contains 'r'" with results["B"] = "xR": True
C24_Witness ==
    /\ evaluate_call.returned
    /\ evaluate_call.condition =
            <<"B">> \o S_dot_result \o S_contains \o <<"'", "r", "'">>
    /\ <<"B">> \in Keys(evaluate_call.results)
    /\ Get(evaluate_call.results, <<"B">>) = <<"x", "R">>
    /\ evaluate_call.value

(***************************************************************************)
(* C25: for every subtask id, looked up as it is stored in results,        *)
(* "<id> is not empty" is True iff id is a key of results and its text     *)
(* stripped of whitespace is not empty, and "<id> is empty" is True iff id *)
(* is no key or its text is empty or whitespace only; "is not empty" is    *)
(* recognized before "is empty".                                           *)
(* Violated by the code: both shapes take the id from the lower-cased      *)
(* condition, so an id with an upper-case letter is never found.           *)
(***************************************************************************)
C25_EmptinessShapes ==
    evaluate_call.returned =>
        LET c == evaluate_call
            present == c.about.id \in Keys(c.results)
        IN  /\ c.about.shape = "is not empty" =>
                c.value = (present /\ strip(Get(c.results, c.about.id)) # <<>>)
            /\ c.about.shape = "is empty" =>
                c.value = (~present \/ strip(Get(c.results, c.about.id)) = <<>>)

(***************************************************************************)
(* C26: a subtask is in a frontier only if its id is not in completed and  *)
(* every id of its depends_on is in completed, a dependency skipped by a   *)
(* false condition counting as completed; a subtask all of whose           *)
(* dependencies were executed or skipped is dispatched, or skipped by its  *)
(* own condition, before execute returns; and its instructions hold no     *)
(* excerpt of a skipped dependency.                                        *)
(* The second part is violated by the code, through the break of C1: a     *)
(* pass that skips a subtask listed after its dependent returns an empty   *)
(* list, execute breaks and the dependent is never dispatched.             *)
(***************************************************************************)
C26_ReadyWhenDepsCompleted ==
    /\ pc \in {"single", "gather"} =>
        \A i \in 1..Len(ready) :
            /\ ready[i].id \notin completed
            /\ ready[i].depends_on \subseteq completed
    /\ \A i \in 1..Len(tasks) : \A e \in tasks[i].injected : e.id \notin skipped
    /\ pc = "done" =>
        \A i \in 1..Len(plan) :
            plan[i].depends_on \subseteq completed => plan[i].id \in completed

(***************************************************************************)
(* The loop of execute as a function of the plan and of the texts the      *)
(* execute_subtask calls return (texts[id] for subtask id): what           *)
(* completed, results and the set of skipped ids are when the loop ends.   *)
(***************************************************************************)
RECURSIVE record_texts(_, _, _, _)
\* results[subtask.id] = result for the members of a frontier, in list order
record_texts(res, rdy, texts, i) ==
    IF i > Len(rdy) THEN res
    ELSE record_texts(Put(res, rdy[i].id, texts[rdy[i].id]), rdy, texts, i + 1)

RECURSIVE run_loop(_, _, _, _, _)
\* while len(completed) < len(plan.subtasks): ready = get_ready_subtasks(...);
\* if not ready: break; run ready, record the results, add the ids to completed
run_loop(subtasks, texts, done, res, skip) ==
    IF ~(Cardinality(done) < Len(subtasks))
    THEN [completed |-> done, results |-> res, skipped |-> skip]
    ELSE LET frontier == get_ready_subtasks(subtasks, done, res)
         IN  IF frontier.ready = <<>>
             THEN [completed |-> frontier.completed, results |-> res,
                   skipped |-> skip \cup frontier.skipped]
             ELSE run_loop(subtasks, texts,
                           frontier.completed
                               \cup {frontier.ready[i].id : i \in 1..Len(frontier.ready)},
                           record_texts(res, frontier.ready, texts, 1),
                           skip \cup frontier.skipped)

\* the sets a run ends with
run_sets(subtasks, texts) ==
    LET end == run_loop(subtasks, texts, {}, <<>>, {})
    IN  [completed |-> end.completed,
         executed  |-> Keys(end.results),
         skipped   |-> end.skipped,
         remaining |-> PlanIds(subtasks) \ end.completed]

\* the orders in which n subtasks can be listed
ListingOrders(n) == {f \in [1..n -> 1..n] : \A i, j \in 1..n : f[i] = f[j] => i = j}

Permuted(p, f) == [i \in 1..Len(p) |-> p[f[i]]]

(***************************************************************************)
(* C27: the sets of completed, executed, skipped and remaining subtasks a  *)
(* run ends with depend on the graph and on the texts execute_subtask      *)
(* returns only, not on the order in which plan.subtasks lists the         *)
(* subtasks: the run of any permutation of the plan, with the same text    *)
(* for every subtask, ends with the same sets as this run.                 *)
(* Violated by the code, through the break of C1: whether a skip and the   *)
(* dispatch of the dependents fall into one pass depends on the listing    *)
(* order.                                                                  *)
(***************************************************************************)
C27_OrderIndependent ==
    pc = "done" =>
        \A f \in ListingOrders(Len(plan)),
           u \in [PlanIds(plan) \ Keys(results) -> BackendTexts] :
            LET texts == [id \in PlanIds(plan) |->
                            IF id \in Keys(results) THEN Get(results, id) ELSE u[id]]
                end == run_sets(Permuted(plan, f), texts)
            IN  /\ end.completed = completed
                /\ end.executed = Keys(results)
                /\ end.skipped = skipped
                /\ end.remaining = Remaining

(***************************************************************************)
(* C28: a frontier of one subtask run directly ends as it would through    *)
(* the gather of the concurrent path, whatever its execute_subtask does,   *)
(* an exception leaving it included: the same entry is stored in results,  *)
(* the id is added to completed, and execute goes on to the next pass.     *)
(* Violated by the code: the direct await has no try block, the exception  *)
(* leaves execute and nothing is recorded, while the gather path stores    *)
(* "Error: ..." and goes on.                                               *)
(***************************************************************************)
C28_SingleAsGather ==
    [][(pc = "single" /\ pc' # "single") =>
            /\ results' = record_all(results, ready, tasks, 1)
            /\ completed' = completed \cup {ready[i].id : i \in 1..Len(ready)}
            /\ pc' = "loop"]_vars

(***************************************************************************)
(* C29: when a member of a concurrent frontier raises, execute stores      *)
(* "Error: " followed by str() of the exception as its entry of results    *)
(* and adds its id to completed, stores for every other member the text it *)
(* returned, and goes on to the next pass of the loop.                     *)
(***************************************************************************)
C29_GatherRecordsError ==
    [][(pc = "gather" /\ pc' # "gather") =>
            /\ pc' = "loop"
            /\ \A i \in 1..Len(ready) :
                /\ finished(tasks[i])
                /\ ready[i].id \in completed'
                /\ ready[i].id \in Keys(results')
                /\ tasks[i].status = "raised" =>
                        Get(results', ready[i].id) = S_error \o tasks[i].ret
                /\ tasks[i].status = "returned" =>
                        Get(results', ready[i].id) = tasks[i].ret]_vars

\* a frontier of two: one member raised in filter_tools_for_subtask, the other
\* returned "r"; both are recorded and the loop is at its next test
C29_Witness ==
    /\ pc = "loop"
    /\ iters = 1
    /\ Len(results) = 2
    /\ results[1].text = S_error \o S_not_iterable
    /\ results[2].text = <<"r">>
    /\ completed = Keys(results)

(***************************************************************************)
(* C30: whenever execute is at the test of its loop, and when it has left  *)
(* the loop, the keys of results are in completed, completed holds ids of  *)
(* plan.subtasks only, and the ids of completed that are no key of results *)
(* are exactly the ids skipped by a false condition.                       *)
(***************************************************************************)
C30_LoopInvariant ==
    pc \in {"loop", "select"} =>
        /\ Keys(results) \subseteq completed
        /\ completed \subseteq PlanIds(plan)
        /\ completed \ Keys(results) = skipped

\* at the loop test after a pass that skipped one subtask and ran another,
\* with a third still to do
C30_Witness ==
    /\ pc = "loop"
    /\ iters >= 1
    /\ skipped # {}
    /\ results # <<>>
    /\ completed = skipped \cup Keys(results)
    /\ completed # PlanIds(plan)

(***************************************************************************)
(* C31: evaluate_condition is called at most once per subtask in one run,  *)
(* and only in a pass of get_ready_subtasks in which every id of the       *)
(* subtask's depends_on is already in completed; the results it is given   *)
(* then hold an entry for every dependency that was executed.              *)
(***************************************************************************)
C31_ConditionEvaluatedOnce ==
    /\ \A k, l \in 1..Len(evaluated) : evaluated[k].id = evaluated[l].id => k = l
    /\ \A k \in 1..Len(evaluated) :
        LET e == evaluated[k]
        IN  /\ e.id \in PlanIds(plan)
            /\ e.id \notin e.completed
            /\ \A dep \in DepsOf(plan, e.id) :
                /\ dep \in e.completed
                /\ dep \in Keys(results) => dep \in e.keys
                /\ Count(started, dep) > 0 => dep \in e.keys

\* a subtask with a condition and a dependency: the dependency was executed
\* and its result was in results when the condition was evaluated
C31_Witness ==
    \E k \in 1..Len(evaluated) :
        \E dep \in DepsOf(plan, evaluated[k].id) :
            /\ dep \in evaluated[k].keys
            /\ dep # evaluated[k].id
            /\ evaluated[k].id \in Keys(results)

(***************************************************************************)
(* Vocabulary of the result order.                                         *)
(***************************************************************************)
\* the ids of a results dict in insertion order
IdsOf(d) == [i \in 1..Len(d) |-> d[i].id]

\* position of an id in a results dict
PosIn(d, id) == CHOOSE i \in 1..Len(d) : d[i].id = id

\* two results dicts list the ids they both hold in the same order
SameOrder(d1, d2) ==
    \A x, y \in Keys(d1) \cap Keys(d2) :
        PosIn(d1, x) < PosIn(d1, y) => PosIn(d2, x) < PosIn(d2, y)

\* the texts of this run, with u for the subtasks that did not run
TextsOf(u) ==
    [id \in PlanIds(plan) |-> IF id \in Keys(results) THEN Get(results, id) ELSE u[id]]

(***************************************************************************)
(* C32 as stated: the insertion order of results, which is the order in    *)
(* which synthesize and its concatenation list the results, is determined  *)
(* by the plan alone: any two runs of one plan, whatever the texts         *)
(* returned and the order in which concurrent subtasks complete, list the  *)
(* ids they both hold in the same order.                                   *)
(* Violated by the code: which frontier a subtask falls into depends on    *)
(* the texts through the conditions.                                       *)
(***************************************************************************)
C32_OrderByPlanAlone ==
    pc = "done" =>
        \A texts \in [PlanIds(plan) -> BackendTexts] :
            SameOrder(results, run_loop(plan, texts, {}, <<>>, {}).results)

(***************************************************************************)
(* C32 amended: the insertion order of results is determined by the plan   *)
(* and the texts the subtasks return (frontier by frontier, plan order     *)
(* within a frontier), and is the same for every order in which            *)
(* concurrently running subtasks complete; synthesize is given results in  *)
(* that order.                                                             *)
(***************************************************************************)
C32_OrderByPlanAndTexts ==
    /\ pc = "loop" => IdsOf(results) = started
    /\ pc \in {"single", "gather"} =>
            IdsOf(results) \o [i \in 1..Len(ready) |-> ready[i].id] = started
    /\ pc \in {"gather"} =>
            \A i, j \in 1..Len(ready) :
                i < j => \E k, l \in 1..Len(plan) :
                            k < l /\ plan[k] = ready[i] /\ plan[l] = ready[j]
    /\ pc \in {"select", "done"} =>
        /\ IdsOf(results) = started
        /\ \A u \in [PlanIds(plan) \ Keys(results) -> BackendTexts] :
                run_loop(plan, TextsOf(u), {}, <<>>, {}).results = results
        /\ \A k \in 1..Len(synth_args) : synth_args[k] = results

\* two subtasks of one frontier completed in the order opposite to the plan's
\* and are in results in plan order
C32_Witness ==
    /\ pc = "done"
    /\ Len(results) >= 2
    /\ Len(synth_args) = 1
    /\ \E i, j \in 1..Len(returns) :
        /\ i < j
        /\ returns[i].id \in Keys(results)
        /\ returns[j].id \in Keys(results)
        /\ PosIn(results, returns[j].id) < PosIn(results, returns[i].id)

(***************************************************************************)
(* C33: for every subtask.tools and every list of providers,               *)
(* filter_tools_for_subtask returns the same providers in the same order   *)
(* with the MCPManager holding the providers as without it (the linear     *)
(* scan), also when several providers expose one requested name and when   *)
(* the names are listed in another order than the providers.               *)
(* Violated by the code: the manager path walks the requested names and    *)
(* takes the first provider of each, the scan walks the providers.         *)
(***************************************************************************)
C33_PathsAgree ==
    filter_call.returned =>
        LET c == filter_call
            other == IF c.mcp_manager.present THEN NoManager
                     ELSE MCPManager(c.all_tools)
        IN  c.filtered_tools = filter_tools_for_subtask(c.tools, c.all_tools, other)

(***************************************************************************)
(* websocket_handler (api/web.py): the chat loop calls orchestrate again   *)
(* and again with the one module-level SessionMemory.                      *)
(***************************************************************************)
\* a new chat message is taken while the session holds fewer turns; also the
\* largest number of turns of a session given to get_context
MaxTurns == 4

\* the arguments websocket_handler passes: the global manager, the global
\* session, an on_event callback, no mcp_command
ChatArgs ==
    [request : Requests, has_session : {TRUE},
     on_event : {"delivers", "raises"},
     mcp_command : {"None"},
     mcp_manager : {"None", "no servers", "servers"}]

\* the handler has sent the response (or the error message of its except
\* branch), receives the next chat message and calls orchestrate with the
\* same session
websocket_handler ==
    /\ fpc \in {"returned", "raised"}
    /\ args.has_session
    /\ Len(session) < MaxTurns
    /\ args' \in ChatArgs
    /\ fpc' = "start"
    /\ decision' = NoDecision
    /\ available_tools' = {}
    /\ manual_mcp' = "None"
    /\ execution_plan' = ExecutionPlan(<<>>)
    /\ response' = <<>>
    /\ raised' = ""
    /\ calls' = <<>>
    /\ events' = <<>>
    /\ UNCHANGED <<pvars, svars, session>>

ChatNext ==
    \/ AddUserTurn
    \/ Route
    \/ DirectAnswer
    \/ Discover
    \/ Plan
    \/ ReportPlan
    \/ websocket_handler

ChatSpec == FacadeInit /\ [][ChatNext]_vars

\* C34: when a call of orchestrate on a shared session has ended, the
\* session's turns alternate user, assistant, starting with a user turn, and
\* the assistant turn a returning call leaves last holds the response it
\* returned to the request in the turn before
C34_TurnsAlternate ==
    (fpc \in {"returned", "raised"} /\ args.has_session) =>
        /\ \A k \in 1..Len(session) :
            session[k].role = IF k % 2 = 1 THEN "user" ELSE "assistant"
        /\ (fpc = "returned" /\ Len(session) > 1
                /\ session[Len(session)].role = "assistant") =>
            /\ session[Len(session)].content = response
            /\ session[Len(session) - 1].content = args.request

(***************************************************************************)
(* SessionMemory.get_context (context/session.py) run on its own.  A Turn  *)
(* here carries its token count, len(encoder.encode(content)): no tokens   *)
(* for the empty text, at least one for any other.                         *)
(***************************************************************************)
\* largest token count of one turn
MaxTurnTokens == 2
\* largest token_limit given to get_context
MaxTokenLimit == 3

Turn(role, content, tokens) == [role |-> role, content |-> content, tokens |-> tokens]

Turns ==
    {Turn(role, IF tokens = 0 THEN <<>> ELSE <<"h">>, tokens) :
        role \in {"user", "assistant"}, tokens \in 0..MaxTurnTokens}

\* the turns a session can hold, oldest first
TurnLists(n) == UNION {[1..k -> Turns] : k \in 0..n}

\* the for loop of get_context from turn i down, most recent first
RECURSIVE walk_back(_, _, _, _, _)
walk_back(turns, i, selected, total_tokens, token_limit) ==
    IF i = 0 THEN selected
    ELSE IF total_tokens + turns[i].tokens <= token_limit
    THEN walk_back(turns, i - 1, <<turns[i]>> \o selected,
                   total_tokens + turns[i].tokens, token_limit)
    ELSE IF total_tokens = 0
    THEN <<turns[i]>> \o selected
    ELSE selected

\* self._format_turns(turns)
format_turns(turns) ==
    join(<<"\n">>,
         [i \in 1..Len(turns) |->
            (IF turns[i].role = "user" THEN <<"U", "s", "e", "r">>
             ELSE <<"A", "s", "s", "i", "s", "t", "a", "n", "t">>)
                \o <<":", " ">> \o turns[i].content])

\* session.get_context(token_limit)
get_context(turns, token_limit) ==
    IF turns = <<>> THEN <<>>
    ELSE format_turns(walk_back(turns, Len(turns), <<>>, 0, token_limit))

ContextInit ==
    /\ NoRun
    /\ FacadeIdle
    /\ connect_call = NoConnectCall
    /\ web = NoWeb
    /\ filter_call = NoFilterCall
    /\ evaluate_call = NoEvaluateCall
    /\ \E turns \in TurnLists(MaxTurns), token_limit \in 0..MaxTokenLimit :
        context_call = [turns |-> turns, token_limit |-> token_limit,
                        returned |-> FALSE, context |-> <<>>]

GetContext ==
    /\ ~context_call.returned
    /\ context_call' =
        [context_call EXCEPT
            !.returned = TRUE,
            !.context = get_context(context_call.turns, context_call.token_limit)]
    /\ UNCHANGED <<svars, fvars, filter_call, evaluate_call, web, connect_call>>

ContextNext == GetContext

ContextSpec == ContextInit /\ [][ContextNext]_vars

\* the n most recent turns, oldest first
Recent(turns, n) == SubSeq(turns, Len(turns) - n + 1, Len(turns))

RECURSIVE TokenSum(_)
TokenSum(turns) ==
    IF turns = <<>> THEN 0 ELSE turns[1].tokens + TokenSum(Tail(turns))

\* C35: get_context returns, oldest first, the longest run of most recent
\* turns whose token counts sum to at most token_limit; exactly the most
\* recent turn when that turn alone is over the limit; and the empty string
\* only for a session without turns
C35_LongestSuffixInLimit ==
    context_call.returned =>
        LET turns == context_call.turns
            limit == context_call.token_limit
            fits  == {n \in 0..Len(turns) : TokenSum(Recent(turns, n)) <= limit}
            most  == CHOOSE n \in fits : \A k \in fits : k <= n
        IN  /\ turns # <<>> /\ turns[Len(turns)].tokens > limit =>
                context_call.context = format_turns(Recent(turns, 1))
            /\ turns # <<>> /\ turns[Len(turns)].tokens <= limit =>
                context_call.context = format_turns(Recent(turns, most))
            /\ context_call.context = <<>> => turns = <<>>

\* C36: when orchestrate has returned or raised, a manual MCP connection it
\* opened is closed
C36_ManualConnectionClosed ==
    fpc \in {"returned", "raised"} => manual_mcp # "open"

(***************************************************************************)
(* The web server (api/web.py): one chat request running in                *)
(* websocket_handler while POST /api/mcp/reload is served.  Both are       *)
(* coroutines of one event loop; the request gives way at the awaits of    *)
(* emit, reload_mcp at the awaits of close_all and init_mcp.  Nothing in   *)
(* web.py or manager.py makes one wait for the other.                      *)
(***************************************************************************)
\* largest number of reloads served
MaxReloads == 2

\* the handler calls orchestrate(user_input, mcp_manager=mcp_manager,
\* session=session, on_event=on_event) with the manager startup connected
ReloadInit ==
    /\ NoRun
    /\ connect_call = NoConnectCall
    /\ filter_call = NoFilterCall
    /\ evaluate_call = NoEvaluateCall
    /\ context_call = NoContextCall
    /\ web = [mcp_manager |-> 1, handed |-> 1, closed |-> {}]
    /\ args \in {a \in ChatArgs : a.mcp_manager = "servers"}
    /\ session \in EarlierTurns
    /\ fpc = "start"
    /\ decision = NoDecision
    /\ available_tools = {}
    /\ manual_mcp = "None"
    /\ execution_plan = ExecutionPlan(<<>>)
    /\ response = <<>>
    /\ raised = ""
    /\ calls = <<>>
    /\ events = <<>>

\* reload_mcp up to the end of close_all: every server of the global manager
\* is closed and its server map cleared.  It runs when the request awaits (at
\* an emit) or has ended.
close_all ==
    /\ fpc \in {"route", "direct", "discover", "returned", "raised"}
    /\ web.mcp_manager # 0
    /\ web.mcp_manager \notin web.closed
    /\ web.mcp_manager <= MaxReloads
    /\ web' = [web EXCEPT !.closed = @ \cup {web.mcp_manager}]
    /\ UNCHANGED <<svars, fvars, filter_call, evaluate_call, context_call, connect_call>>

\* mcp_manager = await init_mcp(): a new manager, or None when nothing
\* connects
init_mcp ==
    /\ web.mcp_manager \in web.closed
    /\ \E connected \in BOOLEAN :
        web' = [web EXCEPT !.mcp_manager = IF connected THEN @ + 1 ELSE 0]
    /\ UNCHANGED <<svars, fvars, filter_call, evaluate_call, context_call, connect_call>>

ReloadNext ==
    \/ AddUserTurn
    \/ Route
    \/ DirectAnswer
    \/ Discover
    \/ Plan
    \/ ReportPlan
    \/ close_all
    \/ init_mcp

ReloadSpec == ReloadInit /\ [][ReloadNext]_vars

\* C37: while the request of the WebSocket handler is running, the servers
\* of the manager it was handed have not been closed
C37_ProvidersOpenWhileRunning ==
    fpc \in {"start", "route", "direct", "discover", "planning", "report"} =>
        web.handed \notin web.closed

\* C38: route does not raise; the router models are tried in chain order up
\* to the first that returns, whose decision is the one route returns; when
\* every model fails the decision is the fallback with path "direct"
C38_RouteFallsBack ==
    (Len(calls) >= 1 /\ calls[1].fn = "route") =>
        LET tried    == calls[1].tried
            chain    == MODEL_CHAINS.router
            n        == Len(tried)
            fallback == RouteDecision("direct", "Fallback due to model errors")
        IN  /\ n \in 1..Len(chain)
            /\ \A k \in 1..n : tried[k].model = chain[k]
            /\ \A k \in 1..(n - 1) : tried[k].kind # "ok"
            /\ tried[n].kind # "ok" => n = Len(chain) /\ decision = fallback
            /\ tried[n].kind = "ok" =>
                decision \in {o.content : o \in {r \in RouterOutcomes : r.kind = "ok"}}
            /\ Len(calls) = 1 => fpc \in {"direct", "discover", "planning"}
            /\ fpc = "raised" => raised = "AttributeError"
            /\ \A outcomes \in [1..Len(chain) -> RouterOutcomes] :
                LET oks == {k \in 1..Len(chain) : outcomes[k].kind = "ok"}
                IN  route(outcomes) =
                        IF oks = {} THEN fallback
                        ELSE outcomes[CHOOSE k \in oks : \A j \in oks : k <= j].content

C38_Witness ==
    /\ Len(calls) >= 1
    /\ calls[1].fn = "route"
    /\ Len(calls[1].tried) = Len(MODEL_CHAINS.router)
    /\ calls[1].tried[1].kind = "ModelProviderError"
    /\ calls[1].tried[2].kind = "Exception"
    /\ decision = RouteDecision("direct", "Fallback due to model errors")
    /\ fpc = "direct"

(***************************************************************************)
(* connect_all_servers (tools/mcp/connection.py) run on its own.  The      *)
(* configurations come from the "servers" object of mcp_config.json        *)
(* (config.py 57-70), so their names differ; connects tells whether        *)
(* connect_mcp_server returns a handle for the server or None.             *)
(***************************************************************************)
\* largest number of server configurations
MaxServers == 3

ServerNames == <<"s1", "s2", "s3", "s4">>

MCPServerConfig(name, enabled, connects) ==
    [name |-> name, enabled |-> enabled, connects |-> connects]

ConfigLists(n) ==
    UNION {{[i \in 1..k |-> MCPServerConfig(ServerNames[i], flags[i][1], flags[i][2])] :
                flags \in [1..k -> BOOLEAN \X BOOLEAN]} : k \in 0..n}

RECURSIVE enabled_configs(_)
\* [c for c in configs if c.enabled]
enabled_configs(configs) ==
    IF configs = <<>> THEN <<>>
    ELSE (IF configs[1].enabled THEN <<configs[1]>> ELSE <<>>)
            \o enabled_configs(Tail(configs))

\* variant: a failed connection with skip_failed false raises and leaves the
\* servers connected so far open and in the map
loop_body_keeps_servers(call) ==
    LET config == enabled_configs(call.configs)[call.i]
        tried  == [call EXCEPT !.attempted = Append(@, config.name), !.i = @ + 1]
    IN  IF config.connects
        THEN [tried EXCEPT !.servers = Append(@, config.name)]
        ELSE IF ~call.skip_failed
        THEN [tried EXCEPT !.status = "raised"]
        ELSE tried

\* one pass of the for loop: connect_mcp_server(config); a handle is put into
\* manager.servers; on None with skip_failed false, manager.close_all()
\* closes every server of the map and clears it, then ConnectionError
loop_body(call) ==
    LET config == enabled_configs(call.configs)[call.i]
        tried  == [call EXCEPT !.attempted = Append(@, config.name), !.i = @ + 1]
    IN  IF config.connects
        THEN [tried EXCEPT !.servers = Append(@, config.name)]
        ELSE IF ~call.skip_failed
        THEN [tried EXCEPT !.closed = @ \o call.servers,
                           !.servers = <<>>,
                           !.status = "raised"]
        ELSE tried

ConnectInit ==
    /\ NoRun
    /\ FacadeIdle
    /\ filter_call = NoFilterCall
    /\ evaluate_call = NoEvaluateCall
    /\ context_call = NoContextCall
    /\ web = NoWeb
    /\ \E configs \in ConfigLists(MaxServers), skip_failed \in BOOLEAN :
        connect_call = [configs |-> configs, skip_failed |-> skip_failed,
                        status |-> "running", i |-> 1,
                        servers |-> <<>>, attempted |-> <<>>, closed |-> <<>>]

\* mcp = await connect_mcp_server(config, timeout) and what follows in the
\* loop
ConnectServer ==
    /\ connect_call.status = "running"
    /\ connect_call.i <= Len(enabled_configs(connect_call.configs))
    /\ connect_call' = loop_body(connect_call)
    /\ UNCHANGED <<svars, fvars, filter_call, evaluate_call, context_call, web>>

\* return manager: at once when no configuration is enabled, otherwise after
\* the loop
ReturnManager ==
    /\ connect_call.status = "running"
    /\ connect_call.i > Len(enabled_configs(connect_call.configs))
    /\ connect_call' = [connect_call EXCEPT !.status = "returned"]
    /\ UNCHANGED <<svars, fvars, filter_call, evaluate_call, context_call, web>>

ConnectNext ==
    \/ ConnectServer
    \/ ReturnManager

ConnectSpec == ConnectInit /\ [][ConnectNext]_vars

\* the names of a list of configurations
NamesOf(configs) == [i \in 1..Len(configs) |-> configs[i].name]

RECURSIVE Connecting(_)
\* the configurations of a list that connect
Connecting(configs) ==
    IF configs = <<>> THEN <<>>
    ELSE (IF configs[1].connects THEN <<configs[1]>> ELSE <<>>)
            \o Connecting(Tail(configs))

\* C39: the enabled servers are tried one at a time in configuration order;
\* with skip_failed the call returns a manager holding exactly the servers
\* that connected; without it the first failed connection closes every
\* server connected so far, leaves the server map empty and raises, and no
\* later server is tried
C39_ConnectAll ==
    connect_call.status # "" =>
        LET c       == connect_call
            enabled == enabled_configs(c.configs)
            n       == Len(c.attempted)
            fails   == {k \in 1..Len(enabled) : ~enabled[k].connects}
            first   == CHOOSE k \in fails : \A j \in fails : k <= j
        IN  /\ n <= Len(enabled)
            /\ c.attempted = NamesOf(SubSeq(enabled, 1, n))
            /\ c.status = "running" => c.i = n + 1
            /\ (c.status = "returned" /\ c.skip_failed) =>
                /\ n = Len(enabled)
                /\ c.servers = NamesOf(Connecting(enabled))
                /\ c.closed = <<>>
            /\ (c.status = "returned" /\ ~c.skip_failed) =>
                /\ fails = {}
                /\ n = Len(enabled)
                /\ c.servers = NamesOf(enabled)
                /\ c.closed = <<>>
            /\ c.status = "raised" =>
                /\ ~c.skip_failed
                /\ fails # {}
                /\ n = first
                /\ c.closed = NamesOf(SubSeq(enabled, 1, first - 1))
                /\ c.servers = <<>>
            /\ (c.status # "running" /\ ~c.skip_failed /\ fails # {}) =>
                c.status = "raised"

C39_Witness ==
    /\ connect_call.status = "raised"
    /\ Len(connect_call.closed) = 1
    /\ Len(connect_call.attempted) = 2
    /\ Len(enabled_configs(connect_call.configs)) = 3

=============================================================================
